---------------------------- MODULE Spec2Model ----------------------------
(***************************************************************************)
(* A model of rivet's single-producer / single-consumer byte ring          *)
(* (src/src/buffer/sync.rs, src/src/buffer/map.rs), of its Selector        *)
(* (src/src/selector/epoll.rs, kqueue.rs, select.rs) and of its stream     *)
(* helpers (src/src/io.rs, src/src/buf.rs).                                *)
(*                                                                         *)
(* Specifications.  Spec and FairSpec: transfers through a constructed     *)
(* ring; SpecAll adds capacity() to them.  SpecNew: ring() with each of    *)
(* its system calls able to fail, the resources it holds, capacity() and   *)
(* the drops.  SpecNames: the ring's calls resolved by name (see Naming).  *)
(* SpecSel: the build's choice of a backend, the calls on a Selector of    *)
(* each backend, the kernel object behind it, and polls with their         *)
(* timeouts and interruptions.  SpecShm: the retry loop of Shm::new.       *)
(* SpecEp: epoll's conversions between masks and kernel flags.  SpecIo:    *)
(* read_nb and write_nb over every answer of the stream, and read_from     *)
(* on a Vec and on a VecDeque.                                             *)
(*                                                                         *)
(* Naming.  In sync.rs the Ring methods at lines 181-209 (`write`, `read`) *)
(* are the non-blocking transfers and the Ring methods at lines 211-227    *)
(* (`try_read`, `try_write`) are the blocking wrappers that loop over a    *)
(* transfer and call block() when it moved no byte.  As named the crate    *)
(* does not type-check (Producer::try_write -> usize returns the wrapper's *)
(* Option<usize>, and the wrappers match their own Option against 0).      *)
(* Spec, FairSpec and SpecNew resolve each call by its type, the one way   *)
(* the bodies fit together: the Load / Copy / Store / Unblock steps are    *)
(* the transfers, the Block / Retry steps are the wrappers' loop around    *)
(* them.  SpecNames resolves each call by the name written: the wrappers   *)
(* call themselves.                                                        *)
(*                                                                         *)
(* Granularity.  Each thread (the owner of the Producer, the owner of the  *)
(* Consumer) advances one shared-memory access at a time:                  *)
(*   load  (head and tail are read, nwrit/nread and the offset computed)   *)
(*   copy  (ptr::copy_nonoverlapping)                                      *)
(*   store (the Release store of head / tail)                              *)
(*   unblock (mutex section of unblock(), then the wrapper's match)        *)
(*   block (mutex section of block(), then the wrapper's loop)             *)
(* A copy moves one byte per step, so the peer's steps fall between the    *)
(* bytes of a copy.                                                        *)
(***************************************************************************)
EXTENDS Integers, Sequences, FiniteSets, TLC

\* ------------------------------------------------------------------ bounds
\* Longest buffer handed to a read or a write.
MaxLen == 2
\* Writes are no longer started once head would pass MaxHead.
MaxHead == 3
\* Most pages requested from ring() in the small-page configuration.
MaxReqPages == 3
\* Largest page multiple requested in the real-page configuration.
MaxPages == 5
\* map.rs:163: const ATTEMPTS: usize = 1 << 12
ATTEMPTS == 4096
\* buf.rs:13: const BUFSIZE: usize = 1024 * 4
BUFSIZE == 4096
\* buf.rs:53, 107: let mut new_write_size = 16
InitialWriteSize == 16
\* The longest slice a stream helper is called with on its own.
MaxBuf == 3
\* The longest buffer read_from is called on.
MaxPrev == 1
\* The bytes a reader has to hand over during one read_from: enough to fill
\* the first resize (32 bytes) and to reach the second.
MaxStream == 33
\* Frames of a blocking wrapper that fit on a thread's stack.
MaxFrames == 2
\* Width of usize in the real-page configuration (the code's is 64).
UsizeBits == 20
\* The largest file descriptor handed to a selector.
MaxFd == 2

\* The bytes a caller's buffer may hold; 0 is the fill of fresh shm pages.
\* Two values are enough to tell any two positions of a stream apart.
Byte == {1, 2}

RECURSIVE Pow2(_)
Pow2(n) == IF n = 0 THEN 1 ELSE 2 * Pow2(n - 1)

UsizeMod == Pow2(UsizeBits)

\* usize `&`.
RECURSIVE BitAnd(_, _)
BitAnd(a, b) ==
    IF a = 0 \/ b = 0 THEN 0
    ELSE (a % 2) * (b % 2) + 2 * BitAnd(a \div 2, b \div 2)

Min(a, b) == IF a <= b THEN a ELSE b

IsPow2(n) == \E k \in 0..UsizeBits : n = Pow2(k)

\* Smallest power of two >= n.
NextPow2(n) == CHOOSE p \in {Pow2(k) : k \in 0..UsizeBits} :
                   /\ p >= n
                   /\ \A q \in {Pow2(k) : k \in 0..UsizeBits} : q >= n => p <= q

\* ------------------------------------------------------------- environment
\* sysconf(_SC_PAGESIZE): page sizes of real systems, and the scaled-down
\* page sizes under which the ring's transfers are explored.
PageSizes == {4096, 8192, 16384, 65536}
SmallPageSizes == {2}
\* Capacities requested in the small-page configuration: one byte short of
\* 1..MaxReqPages whole pages, so that page_aligned has to round each up.
SmallRequests == {2 * k - 1 : k \in 1..MaxReqPages}

\* Capacities requested from ring() in the real-page configuration.
Requests ==
    {0, 1, 65535, 65536, 65537}
    \cup {k * 4096 + d : k \in 1..MaxPages, d \in {-1, 0, 1}}
    \cup {UsizeMod - 1 - k * 2048 : k \in 0..3}

VARIABLES
    pagesize,   \* get_page_size()
    req,        \* the capacity ring() was called with
    ringres,    \* "none" before ring(), then "Ok" or "Err"
    cap, mask,  \* Ring.cap, Ring.mask
    mem,        \* the shm object: physical offset -> byte (absent = 0)
    head, tail, \* Ring.head, Ring.tail
    state,      \* the State under Ring.lock
    notified,   \* what the latest critical section on Ring.lock did to Ring.cvar
    pAlive, cAlive,     \* the Producer / Consumer handle is not yet dropped
    \* the producer's call
    ppc, pbuf, pblocking, p_head, p_tail, p_nwrit, p_offset, pret, ppeerGone,
    p_copied,   \* bytes of buf the copy of Ring::write has stored so far
    \* the consumer's call
    cpc, clen, cblocking, c_tail, c_head, c_nread, c_offset, cdata, cret, cpeerGone,
    written,    \* history: bytes accepted by the producer's writes, in order
    consumed,   \* history: bytes the consumer's reads copied out, in order
    wstart,     \* history: head before the latest write that accepted a byte
    pcapacity, ccapacity,   \* last result of Producer/Consumer::capacity()
    pframes, cframes,       \* frames of Ring::try_write / try_read on each stack
    \* the resources behind the ring
    arc,        \* strong count of the Arc<UnsafeCell<Ring>>
    rsv,        \* the 2*cap reservation: "none", "mapped" or "unmapped"
    munmaps,    \* the munmap calls so far: the Mapping each was made through
    shmfd,      \* the shm descriptor: "none", "open" or "closed"
    closes,     \* the close calls on the shm descriptor so far
    shmname,    \* the shm name: "none", "linked" or "unlinked"
    ringerr,    \* the system call whose error ring() returned, or "none"
    attempts,   \* Shm::new: the shm_open calls its loop has made
    shmres,     \* Shm::new: "none", "retry" (in its loop), "Ok" or "Err"
    shmerr,     \* Shm::new: the error of its latest attempt, or "none"
    \* the selector
    backend,    \* the backend selector/mod.rs compiled in
    enableWins, \* kqueue: the kernel obeys EV_ENABLE when EV_DISABLE is set too
    interest,   \* epoll: the interest list behind Selector.epfd
    knotes,     \* kqueue: the knotes behind Selector.kqfd
    maxfd, rfds, wfds,  \* select: Selector.maxfd, Selector.rfds, Selector.wfds
    regmask,    \* history: the mask each fd is registered with by the calls made
    dereg,      \* history: the fds deregistered and not registered again since
    sret,       \* what the latest call on the selector returned
    iterating,  \* the iterator returned by the latest poll is still in use
    kready,     \* the conditions the kernel found on each fd during that poll
    fired,      \* the Fired values that iterator yields
    ptimeout,   \* the timeout of the poll that is the latest call
    kwait,      \* how the kernel waited in it, "none" outside one
    \* epoll's flag conversions
    ep_evts,    \* the EventSet handed to EpollFlag::from
    ep_flag,    \* the EpollFlag it returned
    ep_events,  \* the events of an epoll_event handed to Fired::from_epoll
    ep_evset,   \* the evset of the Fired it returned
    \* the stream helpers (io.rs)
    nb_op,      \* "read_nb" or "write_nb": the helper called latest, or "none"
    nb_pc,      \* "loop" while it runs, "idle" outside
    nb_len,     \* buf.len()
    nb_n,       \* nread / nwrit
    nb_moved,   \* history: the bytes the inner calls of this call returned Ok for
    nb_last,    \* history: "Ok" or the error the latest inner call returned
    nb_ret,     \* what the helper returned
    \* Buffer::read_from (buf.rs)
    rf_kind,    \* "Vec" or "VecDeque": the buffer read_from is called on
    rf_pc,      \* "top" at the head of its loop, "read_nb" in the helper, "idle"
    rf_buf,     \* self
    rf_len,     \* len
    rf_start_len, \* start_len
    rf_nws,     \* new_write_size
    rf_ret,     \* what read_from returned
    rf_prev,    \* history: self when read_from was called
    rf_got      \* history: the bytes the reader handed over during the call

ringVars == <<pagesize, req, ringres, cap, mask>>
memVars  == <<mem, head, tail, state, notified>>
prodVars == <<ppc, pbuf, pblocking, p_head, p_tail, p_nwrit, p_offset, pret, ppeerGone,
             p_copied>>
consVars == <<cpc, clen, cblocking, c_tail, c_head, c_nread, c_offset, cdata, cret,
             cpeerGone>>
histVars == <<written, consumed, wstart>>
capVars  == <<pcapacity, ccapacity>>
shmVars  == <<attempts, shmres, shmerr>>
epVars   == <<ep_evts, ep_flag, ep_events, ep_evset>>
nbVars   == <<nb_op, nb_pc, nb_len, nb_n, nb_moved, nb_last, nb_ret>>
rfVars   == <<rf_kind, rf_pc, rf_buf, rf_len, rf_start_len, rf_nws, rf_ret, rf_prev,
             rf_got>>
libVars  == <<epVars, nbVars, rfVars>>
resVars  == <<arc, rsv, munmaps, shmfd, closes, shmname, ringerr, shmVars, libVars>>
selVars  == <<backend, enableWins, interest, knotes, maxfd, rfds, wfds, regmask,
             dereg, sret, iterating, kready, fired, ptimeout,
             kwait>>
stackVars == <<pframes, cframes>>
vars == <<ringVars, memVars, pAlive, cAlive, prodVars, consVars, histVars, capVars,
          resVars, selVars, stackVars>>

\* No conversion of epoll flags has been made: the variables hold the empty
\* set of each type, which the conversions take to one another.
NoEpollCall ==
    /\ ep_evts = {} /\ ep_flag = {}
    /\ ep_events = {} /\ ep_evset = {}

\* A Result<usize> of the stream helpers and of read_from; no call made yet.
IoNone == [tag |-> "none", n |-> 0, kind |-> "none"]
IoOk(k) == [tag |-> "Ok", n |-> k, kind |-> "none"]
IoErr(kind) == [tag |-> "Err", n |-> 0, kind |-> kind]

\* read_from has not been called.
NoReadFrom ==
    /\ rf_kind = "none" /\ rf_pc = "idle"
    /\ rf_buf = <<>> /\ rf_len = 0 /\ rf_start_len = 0 /\ rf_nws = 0
    /\ rf_ret = IoNone
    /\ rf_prev = <<>> /\ rf_got = <<>>

\* No stream helper and no read_from has been called.
NoIoCall ==
    /\ nb_op = "none" /\ nb_pc = "idle"
    /\ nb_len = 0 /\ nb_n = 0 /\ nb_moved = 0
    /\ nb_last = "none" /\ nb_ret = IoNone
    /\ NoReadFrom

\* Nothing of the library besides the ring and the selector is in use.
NoLibCall == NoEpollCall /\ NoIoCall

NoCall == [tag |-> "NoCall", n |-> 0]
None == [tag |-> "None", n |-> 0]
Some(k) == [tag |-> "Some", n |-> k]
Usize(k) == [tag |-> "usize", n |-> k]

\* ------------------------------------------------- the selector's state
\* The descriptors handed to a selector; 0 is taken by the standard input.
Fds == 1..MaxFd

\* The masks passed to register and reregister, of the bits of an EventSet
\* (event.rs): "READABLE", "WRITABLE", "ERROR", "HUP".
Masks == SUBSET {"READABLE", "WRITABLE"}

\* What the kernel can find on a descriptor when it is polled: data to read,
\* room to write, a pending error, a hang-up of the peer.
ReadyKinds == {{}, {"in"}, {"out"}, {"in", "out"}, {"hup"}, {"err"}}

Max(a, b) == IF a >= b THEN a ELSE b

\* The entries ev[fd], ev[fd + 1], ... in one sequence.
RECURSIVE EntriesFrom(_, _)
EntriesFrom(ev, fd) ==
    IF fd > MaxFd THEN <<>> ELSE ev[fd] \o EntriesFrom(ev, fd + 1)

\* The entries of all descriptors, by ascending descriptor.
Entries(ev) == EntriesFrom(ev, 1)

\* A selector with nothing registered, as Selector::new leaves it.
Unregistered == [on |-> FALSE, evset |-> {}]
NoInterest == [fd \in Fds |-> [on |-> FALSE, events |-> {}]]
NoKnotes ==
    [fd \in Fds |-> [f \in {"EVFILT_READ", "EVFILT_WRITE"} |-> "absent"]]

EmptySelector ==
    /\ interest = NoInterest
    /\ knotes = NoKnotes
    /\ maxfd = 0 /\ rfds = {} /\ wfds = {}
    /\ regmask = [fd \in Fds |-> Unregistered]
    /\ dereg = {}
    /\ sret = "Ok"
    /\ iterating = FALSE
    /\ kready = [fd \in Fds |-> {}]
    /\ fired = <<>>
    /\ ptimeout = [some |-> FALSE, ns |-> 0]
    /\ kwait = "none"

\* No selector is in use.
NoSelector ==
    /\ backend = "none" /\ enableWins = FALSE
    /\ EmptySelector

\* ------------------------------------------------------------ construction
\* page_aligned adding a whole page instead of pagesize - 1.
page_aligned_whole_page(c, ps) ==
    LET c1 == IF c = 0 THEN 1 ELSE c
        alloc == (c1 + ps) % UsizeMod
    IN  alloc - BitAnd(alloc, ps - 1)

\* map.rs page_aligned, with usize wrap-around.
page_aligned(c, ps) ==
    LET c1 == IF c = 0 THEN 1 ELSE c
        alloc == (c1 + (ps - 1)) % UsizeMod
    IN  alloc - BitAnd(alloc, ps - 1)

\* Ring::new: the capacity, the mask and whether construction can succeed.
\* mmap of length 0 fails (EINVAL); set_len casts the length to the signed
\* off_t, so a length of 2^(bits-1) or more is negative and ftruncate fails.
Ring_new(c, ps) ==
    LET k == page_aligned(c, ps)
        maplen == (2 * k) % UsizeMod
    IN  [cap |-> k,
         mask |-> (k - 1) % UsizeMod,
         possible |-> maplen # 0 /\ 2 * k < UsizeMod]

\* The system calls of Ring::new in program order (sync.rs:134-160 with
\* Shm::new, map.rs:177-186), and NoFail for a construction none of them fails.
Range(f) == {f[x] : x \in DOMAIN f}

Syscalls ==
    <<"mmap", "shm_open", "shm_unlink", "ftruncate", "lower_map", "upper_map">>
NoFail == "none"
StageOf(f) ==
    IF f = NoFail THEN Len(Syscalls) + 1
    ELSE CHOOSE i \in 1..Len(Syscalls) : Syscalls[i] = f

\* The system call whose error Ring::new(c) returns when the system makes
\* call f fail: f itself, unless the arguments make an earlier call fail.
Ring_new_fails(c, ps, f) ==
    LET k == page_aligned(c, ps)
        maplen == (2 * k) % UsizeMod
        forced == IF maplen = 0 THEN "mmap"
                  ELSE IF 2 * k >= UsizeMod THEN "ftruncate"
                  ELSE NoFail
    IN  IF StageOf(f) <= StageOf(forced) THEN f ELSE forced

\* Ring::new forgetting shm on success, as it forgets the two fixed mappings.
Ring_new_drops_forget_shm(f) ==
    CASE f = "mmap" -> <<>>
      [] f = "shm_open" -> <<"map">>
      [] f = "shm_unlink" -> <<"shm", "map">>
      [] f = "ftruncate" -> <<"shm", "map">>
      [] f = "lower_map" -> <<"shm", "map">>
      [] f = "upper_map" -> <<"lower_map", "shm", "map">>
      [] OTHER -> <<>>

\* The locals of Ring::new that are dropped when it returns, in drop order
\* (the reverse of their declaration).  try! returns at the failing call; a
\* failing shm_unlink drops the Shm inside Shm::new.  On success lower_map and
\* upper_map are forgotten and map moves into the Ring; shm is still a local.
Ring_new_drops(f) ==
    CASE f = "mmap" -> <<>>
      [] f = "shm_open" -> <<"map">>
      [] f = "shm_unlink" -> <<"shm", "map">>
      [] f = "ftruncate" -> <<"shm", "map">>
      [] f = "lower_map" -> <<"shm", "map">>
      [] f = "upper_map" -> <<"lower_map", "shm", "map">>
      [] OTHER -> <<"shm">>

IsMapping(local) == local \in {"map", "lower_map", "upper_map"}
IsShm(local) == local = "shm"

\* Shm::new unlinking the name only after set_len.
Shm_new_name_unlink_late(f) ==
    IF StageOf(f) <= StageOf("shm_open") THEN "none"
    ELSE IF f \in {"shm_unlink", "ftruncate"} THEN "linked"
    ELSE "unlinked"

\* Shm::new: the name is unlinked right after shm_open created it; when
\* shm_unlink itself fails the name is still linked.
Shm_new_name(f) ==
    IF StageOf(f) <= StageOf("shm_open") THEN "none"
    ELSE IF f = "shm_unlink" THEN "linked"
    ELSE "unlinked"

\* The resources when Ring::new, failing at f, has returned and ring() has
\* put an Ok Ring behind an Arc shared by the two handles.
ring_resources(f) ==
    LET drops == Ring_new_drops(f)
        shmOpened == StageOf(f) > StageOf("shm_open")
    IN  [arc |-> IF f = NoFail THEN 2 ELSE 0,
         rsv |-> IF f = "mmap" THEN "none"
                 ELSE IF \E i \in 1..Len(drops) : drops[i] = "map" THEN "unmapped"
                 ELSE "mapped",
         munmaps |-> SelectSeq(drops, IsMapping),
         shmfd |-> IF ~shmOpened THEN "none"
                   ELSE IF \E i \in 1..Len(drops) : IsShm(drops[i]) THEN "closed"
                   ELSE "open",
         closes |-> Len(SelectSeq(drops, IsShm)),
         shmname |-> Shm_new_name(f),
         ringerr |-> f]

NoResources ==
    /\ arc = 0 /\ rsv = "none" /\ munmaps = <<>>
    /\ shmfd = "none" /\ closes = 0 /\ shmname = "none" /\ ringerr = NoFail
    /\ attempts = 0 /\ shmres = "none" /\ shmerr = "none"
    /\ NoLibCall

\* The thread-local parts before any call.
IdleThreads ==
    /\ pAlive = TRUE /\ cAlive = TRUE
    /\ ppc = "idle" /\ pbuf = <<>> /\ pblocking = FALSE
    /\ p_head = 0 /\ p_tail = 0 /\ p_nwrit = 0 /\ p_offset = 0 /\ p_copied = 0
    /\ pret = NoCall /\ ppeerGone = FALSE
    /\ cpc = "idle" /\ clen = 0 /\ cblocking = FALSE
    /\ c_tail = 0 /\ c_head = 0 /\ c_nread = 0 /\ c_offset = 0
    /\ cdata = <<>> /\ cret = NoCall /\ cpeerGone = FALSE
    /\ written = <<>> /\ consumed = <<>> /\ wstart = 0
    /\ pcapacity = None /\ ccapacity = None
    /\ pframes = 0 /\ cframes = 0

\* The Ring of sync.rs:167-178.
FreshRing(c, ps) ==
    /\ pagesize = ps
    /\ req = c
    /\ ringres = "Ok"
    /\ cap = Ring_new(c, ps).cap
    /\ mask = Ring_new(c, ps).mask
    /\ mem = <<>>
    /\ head = 0 /\ tail = 0
    /\ state = "Open"
    /\ notified = "none"
    /\ arc = ring_resources(NoFail).arc
    /\ rsv = ring_resources(NoFail).rsv
    /\ munmaps = ring_resources(NoFail).munmaps
    /\ shmfd = ring_resources(NoFail).shmfd
    /\ closes = ring_resources(NoFail).closes
    /\ shmname = ring_resources(NoFail).shmname
    /\ ringerr = NoFail
    /\ attempts = 0 /\ shmres = "none" /\ shmerr = "none"
    /\ NoLibCall

\* The state after ring(c) returned Ok, small pages.
Init ==
    /\ \E ps \in SmallPageSizes, c \in SmallRequests :
          /\ Ring_new(c, ps).possible
          /\ FreshRing(c, ps)
    /\ IdleThreads
    /\ NoSelector

\* ------------------------------------------------------------------ memory
\* lower_map and upper_map map the same shm object at base and base + cap:
\* virtual offset v in 0..2*cap-1 is physical offset v mod cap.
Phys(v) == v % cap

MemRead(m, v) == IF Phys(v) \in DOMAIN m THEN m[Phys(v)] ELSE 0

\* ptr::copy_nonoverlapping(src, base + off, n)
MemCopyIn(m, off, src, n) ==
    LET touched == {Phys(off + i) : i \in 0..(n - 1)}
        \* the last source byte that lands on physical offset a
        last(a) == CHOOSE i \in 0..(n - 1) :
                       /\ Phys(off + i) = a
                       /\ \A j \in 0..(n - 1) : Phys(off + j) = a => j <= i
    IN  [a \in DOMAIN m \cup touched |->
            IF a \in touched THEN src[last(a) + 1] ELSE m[a]]

\* ptr::copy_nonoverlapping(base + off, dest, n)
MemCopyOut(m, off, n) == [i \in 1..n |-> MemRead(m, off + i - 1)]

\* ------------------------------------------------------- the state machine
\* unblock() without its test for Disconnected.
unblock_always_open(s) == "Open"

\* unblock() storing Blocked where it stores Open: nobody is released.
unblock_to_blocked(s) == IF s = "Disconnected" THEN "Disconnected" ELSE "Blocked"

\* sync.rs unblock(): Open unless Disconnected.
unblock(s) == IF s = "Disconnected" THEN "Disconnected" ELSE "Open"

\* sync.rs unblock(): notify_one unless Disconnected.
unblock_notify(s) == IF s = "Disconnected" THEN "none" ELSE "notify_one"

\* block() without its test for Disconnected.
block_always_open(s) == "Open"

\* sync.rs block(), past the wait: Open unless Disconnected.
block(s) == IF s = "Disconnected" THEN "Disconnected" ELSE "Open"

\* disconnect() without its store to the state.
disconnect_keeps_state(s) == s

\* sync.rs disconnect()
disconnect(s) == "Disconnected"


\* ---------------------------------------------------------------- producer
\* Ring::write taking the whole capacity as free.
write_navail_whole_cap(h, t) == cap

\* Ring::write masking with cap instead of mask.
write_offset_cap(h) == BitAnd(h, cap)

\* sync.rs:183-185
write_navail(h, t) == cap - (h - t)
write_nwrit(h, t, len) == Min(write_navail(h, t), len)
write_offset(h) == BitAnd(h, mask)

\* sync.rs:182-185: the loads of Ring::write and what it derives from them.
WriteLoad ==
    /\ p_head' = head
    /\ p_tail' = tail
    /\ p_nwrit' = write_nwrit(head, tail, Len(pbuf'))
    /\ p_offset' = write_offset(head)
    /\ p_copied' = 0
    /\ ppc' = "copy"

\* The call returns r: its frame (buffer borrow and locals) ends.
ProducerReturn(r) ==
    /\ ppc' = "idle"
    /\ pret' = r
    /\ pbuf' = <<>> /\ pblocking' = FALSE /\ ppeerGone' = FALSE
    /\ p_head' = 0 /\ p_tail' = 0 /\ p_nwrit' = 0 /\ p_offset' = 0
    /\ p_copied' = 0

\* Producer::try_write(buf) (blocking = FALSE) or Producer::write(buf)
\* (blocking = TRUE) is entered and Ring::write performs its loads.
ProducerCall(buf, blocking) ==
    /\ pAlive /\ ppc = "idle"
    /\ head + Len(buf) <= MaxHead
    /\ pbuf' = buf
    /\ pblocking' = blocking
    /\ ppeerGone' = ~cAlive
    /\ pret' = NoCall
    /\ WriteLoad
    /\ UNCHANGED <<ringVars, memVars, pAlive, cAlive, consVars, histVars,
                   capVars, resVars, selVars,
                   stackVars>>

\* sync.rs:186-190.  The copy is not atomic: it stores one byte of buf per
\* step, from the first to the last, and is over with the last one.
ProducerCopy ==
    /\ ppc = "copy"
    /\ IF p_copied < p_nwrit
       THEN /\ mem' = MemCopyIn(mem, p_offset + p_copied,
                                <<pbuf[p_copied + 1]>>, 1)
            /\ p_copied' = p_copied + 1
       ELSE UNCHANGED <<mem, p_copied>>
    /\ ppc' = IF p_copied + 1 >= p_nwrit THEN "store" ELSE "copy"
    /\ UNCHANGED <<ringVars, head, tail, state, notified, pAlive, cAlive, pbuf,
                   pblocking, p_head, p_tail, p_nwrit, p_offset, pret, ppeerGone,
                   consVars, histVars, capVars, resVars, selVars,
                   stackVars>>

\* Ring::write storing to tail as well: it empties the ring.
ProducerStore_tail_too ==
    /\ ppc = "store"
    /\ head' = p_head + p_nwrit
    /\ tail' = head'
    /\ written' = written \o SubSeq(pbuf, 1, p_nwrit)
    /\ wstart' = IF p_nwrit > 0 THEN p_head ELSE wstart
    /\ ppc' = "unblock"
    /\ UNCHANGED <<ringVars, mem, state, notified, pAlive, cAlive, pbuf, pblocking,
                   p_head, p_tail, p_nwrit, p_offset, pret, ppeerGone,
                   p_copied, consVars, consumed, capVars, resVars, selVars,
                   stackVars>>

\* sync.rs:191
ProducerStore ==
    /\ ppc = "store"
    /\ head' = p_head + p_nwrit
    /\ written' = written \o SubSeq(pbuf, 1, p_nwrit)
    /\ wstart' = IF p_nwrit > 0 THEN p_head ELSE wstart
    /\ ppc' = "unblock"
    /\ UNCHANGED <<ringVars, mem, tail, state, notified, pAlive, cAlive, pbuf, pblocking,
                   p_head, p_tail, p_nwrit, p_offset, pret, ppeerGone,
                   p_copied, consVars, consumed, capVars, resVars, selVars,
                   stackVars>>

\* sync.rs:192-193, then the caller: the non-blocking call returns nwrit,
\* the blocking wrapper (sync.rs:222-225) returns Some(n) or goes to block().
ProducerUnblock ==
    /\ ppc = "unblock"
    /\ state' = unblock(state)
    /\ notified' = unblock_notify(state)
    /\ IF ~pblocking
       THEN ProducerReturn(Usize(p_nwrit))
       ELSE IF p_nwrit = 0
            THEN /\ ppc' = "block"
                 /\ UNCHANGED <<pret, pbuf, pblocking, ppeerGone,
                                p_head, p_tail, p_nwrit, p_offset, p_copied>>
            ELSE ProducerReturn(Some(p_nwrit))
    /\ UNCHANGED <<ringVars, mem, head, tail, pAlive, cAlive,
                   consVars, histVars, capVars, resVars, selVars,
                   stackVars>>

\* sync.rs:235-246 called from sync.rs:223.  The condition-variable wait is
\* the guard: the thread leaves block() only in a state other than Blocked.
ProducerBlock ==
    /\ ppc = "block"
    /\ state # "Blocked"
    /\ state' = block(state)
    /\ notified' = "none"
    /\ IF block(state) = "Disconnected"
       THEN ProducerReturn(None)
       ELSE /\ ppc' = "retry"
            /\ UNCHANGED <<pret, pbuf, pblocking, ppeerGone,
                           p_head, p_tail, p_nwrit, p_offset, p_copied>>
    /\ UNCHANGED <<ringVars, mem, head, tail, pAlive, cAlive,
                   consVars, histVars, capVars, resVars, selVars,
                   stackVars>>

\* sync.rs:221-222: the wrapper's loop calls Ring::write again.
ProducerRetry ==
    /\ ppc = "retry"
    /\ pbuf' = pbuf
    /\ WriteLoad
    /\ UNCHANGED <<ringVars, memVars, pAlive, cAlive, pblocking, pret, ppeerGone,
                   consVars, histVars, capVars, resVars, selVars,
                   stackVars>>

\* Arc::drop releasing the Ring whichever handle goes first.
last_owner_any(n) == TRUE

\* Arc::drop: the handle that finds the strong count at 1 drops the Ring.
last_owner(n) == n = 1

\* The handle's Arc field is dropped after the body of its Drop.  Dropping
\* the Ring drops Ring.map, whose Drop unmaps the reservation (map.rs:92-98);
\* the Ring has no Shm field.
ArcDrop ==
    /\ arc' = arc - 1
    /\ IF last_owner(arc)
       THEN /\ rsv' = "unmapped"
            /\ munmaps' = Append(munmaps, "map")
       ELSE UNCHANGED <<rsv, munmaps>>
    /\ UNCHANGED <<shmfd, closes, shmname, ringerr, shmVars, libVars>>

\* sync.rs:62-68.  A handle is dropped only outside its own calls.
ProducerDrop ==
    /\ ringres = "Ok" /\ pAlive /\ ppc = "idle"
    /\ pAlive' = FALSE
    /\ state' = disconnect(state)
    /\ notified' = "notify_all"
    /\ ArcDrop
    /\ UNCHANGED <<ringVars, mem, head, tail, cAlive, prodVars, consVars,
                   histVars, capVars, selVars, stackVars>>

\* ---------------------------------------------------------------- consumer
\* Ring::read ignoring the length of the caller's buffer.
read_nread_no_min(h, t, len) == h - t

\* sync.rs:198-200
read_navail(h, t) == h - t
read_nread(h, t, len) == Min(read_navail(h, t), len)
\* Ring::read taking tail itself as the offset.
read_offset_unmasked(t) == t

read_offset(t) == BitAnd(t, mask)

\* sync.rs:197-200
ReadLoad ==
    /\ c_tail' = tail
    /\ c_head' = head
    /\ c_nread' = read_nread(head, tail, clen')
    /\ c_offset' = read_offset(tail)
    /\ cpc' = "copy"

\* The call returns r: its frame (buffer borrow and locals) ends.
ConsumerReturn(r) ==
    /\ cpc' = "idle"
    /\ cret' = r
    /\ clen' = 0 /\ cblocking' = FALSE /\ cpeerGone' = FALSE /\ cdata' = <<>>
    /\ c_tail' = 0 /\ c_head' = 0 /\ c_nread' = 0 /\ c_offset' = 0

\* Consumer::try_read(buf) (blocking = FALSE) or Consumer::read(buf)
\* (blocking = TRUE) with buf.len() = len.
ConsumerCall(len, blocking) ==
    /\ cAlive /\ cpc = "idle"
    /\ clen' = len
    /\ cblocking' = blocking
    /\ cpeerGone' = ~pAlive
    /\ cret' = NoCall
    /\ ReadLoad
    /\ UNCHANGED <<ringVars, memVars, pAlive, cAlive, cdata, prodVars,
                   histVars, capVars, resVars, selVars,
                   stackVars>>

\* sync.rs:201-205.  The copy is not atomic: it loads one byte of the ring
\* per step into buf, cdata being the bytes it has loaded so far.
ConsumerCopy ==
    /\ cpc = "copy"
    /\ cdata' = IF Len(cdata) < c_nread
                THEN cdata \o MemCopyOut(mem, c_offset + Len(cdata), 1)
                ELSE cdata
    /\ consumed' = consumed \o SubSeq(cdata', Len(cdata) + 1, Len(cdata'))
    /\ cpc' = IF Len(cdata') >= c_nread THEN "store" ELSE "copy"
    /\ UNCHANGED <<ringVars, memVars, pAlive, cAlive, clen, cblocking, c_tail,
                   c_head, c_nread, c_offset, cret, cpeerGone, prodVars,
                   written, wstart, capVars, resVars, selVars,
                   stackVars>>

\* sync.rs:206
ConsumerStore ==
    /\ cpc = "store"
    /\ tail' = c_tail + c_nread
    /\ cpc' = "unblock"
    /\ UNCHANGED <<ringVars, mem, head, state, notified, pAlive, cAlive, clen, cblocking,
                   c_tail, c_head, c_nread, c_offset, cdata, cret, cpeerGone,
                   prodVars, histVars, capVars, resVars, selVars,
                   stackVars>>

\* sync.rs:207-208, then the caller (sync.rs:213-216 for the wrapper).
ConsumerUnblock ==
    /\ cpc = "unblock"
    /\ state' = unblock(state)
    /\ notified' = unblock_notify(state)
    /\ IF ~cblocking
       THEN ConsumerReturn(Usize(c_nread))
       ELSE IF c_nread = 0
            THEN /\ cpc' = "block"
                 /\ UNCHANGED <<cret, clen, cblocking, cpeerGone, cdata,
                                c_tail, c_head, c_nread, c_offset>>
            ELSE ConsumerReturn(Some(c_nread))
    /\ UNCHANGED <<ringVars, mem, head, tail, pAlive, cAlive,
                   prodVars, histVars, capVars, resVars, selVars,
                   stackVars>>

\* sync.rs:235-246 called from sync.rs:214.
ConsumerBlock ==
    /\ cpc = "block"
    /\ state # "Blocked"
    /\ state' = block(state)
    /\ notified' = "none"
    /\ IF block(state) = "Disconnected"
       THEN ConsumerReturn(None)
       ELSE /\ cpc' = "retry"
            /\ UNCHANGED <<cret, clen, cblocking, cpeerGone, cdata,
                           c_tail, c_head, c_nread, c_offset>>
    /\ UNCHANGED <<ringVars, mem, head, tail, pAlive, cAlive,
                   prodVars, histVars, capVars, resVars, selVars,
                   stackVars>>

\* sync.rs:212-213: the wrapper's loop calls Ring::read again.
ConsumerRetry ==
    /\ cpc = "retry"
    /\ clen' = clen
    /\ ReadLoad
    /\ UNCHANGED <<ringVars, memVars, pAlive, cAlive, cblocking, cdata, cret,
                   cpeerGone, prodVars, histVars, capVars, resVars, selVars,
                   stackVars>>

\* sync.rs:95-101
ConsumerDrop ==
    /\ ringres = "Ok" /\ cAlive /\ cpc = "idle"
    /\ cAlive' = FALSE
    /\ state' = disconnect(state)
    /\ notified' = "notify_all"
    /\ ArcDrop
    /\ UNCHANGED <<ringVars, mem, head, tail, pAlive, prodVars, consVars,
                   histVars, capVars, selVars, stackVars>>

\* ------------------------------------------------------------ specification
Buffers == UNION {[1..n -> Byte] : n \in 0..MaxLen}

ProducerStep ==
    \/ ProducerCopy \/ ProducerStore \/ ProducerUnblock
    \/ ProducerBlock \/ ProducerRetry

ConsumerStep ==
    \/ ConsumerCopy \/ ConsumerStore \/ ConsumerUnblock
    \/ ConsumerBlock \/ ConsumerRetry

Next ==
    \/ \E buf \in Buffers, blocking \in BOOLEAN : ProducerCall(buf, blocking)
    \/ ProducerCopy
    \/ ProducerStore
    \/ ProducerUnblock
    \/ ProducerBlock
    \/ ProducerRetry
    \/ ProducerDrop
    \/ \E len \in 0..MaxLen, blocking \in BOOLEAN : ConsumerCall(len, blocking)
    \/ ConsumerCopy
    \/ ConsumerStore
    \/ ConsumerUnblock
    \/ ConsumerBlock
    \/ ConsumerRetry
    \/ ConsumerDrop

Spec == Init /\ [][Next]_vars

\* The state after ring(1) returned Ok: the ring of a single page.
InitOnePage ==
    /\ \E ps \in SmallPageSizes : FreshRing(1, ps)
    /\ IdleThreads
    /\ NoSelector

\* Preemptive OS threads: a thread inside a call keeps being scheduled.
\* Nothing obliges a thread to start a call or to drop its handle.
FairSpec ==
    /\ InitOnePage
    /\ [][Next]_vars
    /\ WF_vars(ProducerStep)
    /\ WF_vars(ConsumerStep)

\* ------------------------------------------- the calls resolved by name
\* As sync.rs names them, Ring::write / Ring::read are the transfers of lines
\* 181-209 and Ring::try_write / Ring::try_read the wrappers of lines 211-227,
\* whose loop calls self.try_read / self.try_write: the wrapper itself.
\* Producer::write and Consumer::read (sync.rs:48-52, 82-86) call the
\* transfers, Producer::try_write and Consumer::try_read (sync.rs:42-46,
\* 88-92) the wrappers.

\* Producer::try_write(buf) enters Ring::try_write.
ProducerTryWrite(buf) ==
    /\ pAlive /\ ppc = "idle"
    /\ ppc' = "wrapper"
    /\ pframes' = 1
    /\ pbuf' = buf
    /\ pret' = NoCall
    /\ ppeerGone' = ~cAlive
    /\ UNCHANGED <<ringVars, memVars, pAlive, cAlive, pblocking, p_head, p_tail,
                   p_nwrit, p_offset, p_copied, consVars, histVars, capVars, resVars,
                   selVars, cframes>>

\* sync.rs:222: match self.try_write(buf) enters Ring::try_write again.
ProducerRecurse ==
    /\ ppc = "wrapper"
    /\ pframes < MaxFrames
    /\ pframes' = pframes + 1
    /\ UNCHANGED <<ringVars, memVars, pAlive, cAlive, prodVars, consVars,
                   histVars, capVars, resVars, selVars, cframes>>

\* Consumer::try_read(buf) enters Ring::try_read.
ConsumerTryRead(len) ==
    /\ cAlive /\ cpc = "idle"
    /\ cpc' = "wrapper"
    /\ cframes' = 1
    /\ clen' = len
    /\ cret' = NoCall
    /\ cpeerGone' = ~pAlive
    /\ UNCHANGED <<ringVars, memVars, pAlive, cAlive, cblocking, c_tail, c_head,
                   c_nread, c_offset, cdata, prodVars, histVars, capVars,
                   resVars, selVars, pframes>>

\* sync.rs:213: match self.try_read(buf) enters Ring::try_read again.
ConsumerRecurse ==
    /\ cpc = "wrapper"
    /\ cframes < MaxFrames
    /\ cframes' = cframes + 1
    /\ UNCHANGED <<ringVars, memVars, pAlive, cAlive, prodVars, consVars,
                   histVars, capVars, resVars, selVars, pframes>>

\* A thread's stack has no room for one more frame: the process is killed,
\* no call returns and no Drop runs.
StackOverflow ==
    /\ \/ ppc = "wrapper" /\ pframes = MaxFrames
       \/ cpc = "wrapper" /\ cframes = MaxFrames
    /\ ppc' = "killed" /\ cpc' = "killed"
    /\ UNCHANGED <<ringVars, memVars, pAlive, cAlive, pbuf, pblocking, p_head,
                   p_tail, p_nwrit, p_offset, pret, ppeerGone, p_copied, clen, cblocking,
                   c_tail, c_head, c_nread, c_offset, cdata, cret, cpeerGone,
                   histVars, capVars, resVars, selVars, stackVars>>

NextNames ==
    \/ \E buf \in Buffers : ProducerCall(buf, FALSE)
    \/ \E buf \in Buffers : ProducerTryWrite(buf)
    \/ ProducerCopy
    \/ ProducerStore
    \/ ProducerUnblock
    \/ ProducerRecurse
    \/ ProducerDrop
    \/ \E len \in 0..MaxLen : ConsumerCall(len, FALSE)
    \/ \E len \in 0..MaxLen : ConsumerTryRead(len)
    \/ ConsumerCopy
    \/ ConsumerStore
    \/ ConsumerUnblock
    \/ ConsumerRecurse
    \/ ConsumerDrop
    \/ StackOverflow

SpecNames == InitOnePage /\ [][NextNames]_vars

\* ------------------------------------------- construction and capacity()
\* Before ring() is called, on a system with real pages.
NoRing ==
    /\ req = 0
    /\ ringres = "none"
    /\ cap = 0 /\ mask = 0
    /\ mem = <<>>
    /\ head = 0 /\ tail = 0
    /\ state = "Open"
    /\ notified = "none"
    /\ NoResources
    /\ IdleThreads

InitNew ==
    /\ pagesize \in PageSizes
    /\ NoRing
    /\ NoSelector

\* sync.rs:31-35 with Ring::new (sync.rs:129-179).  oserr: the system call
\* of the construction that fails for a reason of the system's own, if any.
ring(c, oserr) ==
    LET f == Ring_new_fails(c, pagesize, oserr)
        r == ring_resources(f)
    IN  /\ ringres = "none"
        /\ req' = c
        /\ IF f # NoFail
           THEN /\ ringres' = "Err"
                /\ UNCHANGED <<cap, mask>>
           ELSE /\ ringres' = "Ok"
                /\ cap' = Ring_new(c, pagesize).cap
                /\ mask' = Ring_new(c, pagesize).mask
        /\ arc' = r.arc /\ rsv' = r.rsv /\ munmaps' = r.munmaps
        /\ shmfd' = r.shmfd /\ closes' = r.closes /\ shmname' = r.shmname
        /\ ringerr' = r.ringerr
        /\ UNCHANGED <<pagesize, memVars, pAlive, cAlive, prodVars, consVars,
                       histVars, capVars, selVars, stackVars, shmVars, libVars>>

\* sync.rs:54-59 and 125-127
ProducerCapacity ==
    /\ ringres = "Ok" /\ pAlive
    /\ pcapacity' = Usize(cap)
    /\ UNCHANGED <<ringVars, memVars, pAlive, cAlive, prodVars, consVars,
                   histVars, ccapacity, resVars, selVars, stackVars>>

\* sync.rs:75-80 and 125-127
ConsumerCapacity ==
    /\ ringres = "Ok" /\ cAlive
    /\ ccapacity' = Usize(cap)
    /\ UNCHANGED <<ringVars, memVars, pAlive, cAlive, prodVars, consVars,
                   histVars, pcapacity, resVars, selVars, stackVars>>

NextNew ==
    \/ \E c \in Requests, oserr \in Range(Syscalls) \cup {NoFail} : ring(c, oserr)
    \/ ProducerCapacity
    \/ ConsumerCapacity
    \/ ProducerDrop
    \/ ConsumerDrop

SpecNew == InitNew /\ [][NextNew]_vars

\* ------------------------------------------------------------ Shm::new
\* What one trip round the loop of Shm::new (map.rs:166-196) comes to, n
\* attempts having collided before it.  out is what the system answers:
\* "Ok" (shm_open and shm_unlink succeed), "shm_unlink" (shm_open succeeds,
\* shm_unlink fails), "AlreadyExists" (the name is taken) or "Other" (any
\* other error of shm_open).  A collision in the last trip ends the loop.
ShmOutcomes == {"Ok", "shm_unlink", "AlreadyExists", "Other"}

\* Shm::new retrying for as long as names collide.
Shm_new_attempt_no_limit(n, out) ==
    CASE out = "Ok" ->
            [res |-> "Ok", err |-> "none", fd |-> "open", closes |-> 0,
             name |-> "unlinked"]
      [] out = "shm_unlink" ->
            [res |-> "Err", err |-> "shm_unlink", fd |-> "closed", closes |-> 1,
             name |-> "linked"]
      [] out = "AlreadyExists" ->
            [res |-> "retry", err |-> "AlreadyExists", fd |-> "none",
             closes |-> 0, name |-> "none"]
      [] OTHER ->
            [res |-> "Err", err |-> "Other", fd |-> "none", closes |-> 0,
             name |-> "none"]

Shm_new_attempt(n, out) ==
    CASE out = "Ok" ->
            [res |-> "Ok", err |-> "none", fd |-> "open", closes |-> 0,
             name |-> "unlinked"]
      [] out = "shm_unlink" ->
            \* try! returns, the Shm is dropped and its Drop closes the fd
            [res |-> "Err", err |-> "shm_unlink", fd |-> "closed", closes |-> 1,
             name |-> "linked"]
      [] out = "AlreadyExists" ->
            IF n + 1 < ATTEMPTS
            THEN [res |-> "retry", err |-> "AlreadyExists", fd |-> "none",
                  closes |-> 0, name |-> "none"]
            ELSE [res |-> "Err", err |-> "exceeded maximum number of retries",
                  fd |-> "none", closes |-> 0, name |-> "none"]
      [] OTHER ->
            [res |-> "Err", err |-> "Other", fd |-> "none", closes |-> 0,
             name |-> "none"]

\* One trip round the loop of Shm::new, the first one entering it.
ShmAttempt(out) ==
    LET r == Shm_new_attempt(attempts, out)
    IN  /\ shmres \in {"none", "retry"}
        /\ attempts' = attempts + 1
        /\ shmres' = r.res
        /\ shmerr' = r.err
        /\ shmfd' = r.fd /\ closes' = r.closes /\ shmname' = r.name
        /\ UNCHANGED <<ringVars, memVars, pAlive, cAlive, prodVars, consVars,
                       histVars, capVars, arc, rsv, munmaps, ringerr, selVars,
                       stackVars, libVars>>

NextShm == \E out \in ShmOutcomes : ShmAttempt(out)

\* Shm::new called in a process that holds no ring.
SpecShm == InitNew /\ [][NextShm]_vars

\* Every operation on a constructed ring, capacity() included.
NextAll ==
    \/ Next
    \/ ProducerCapacity
    \/ ConsumerCapacity

SpecAll == InitOnePage /\ [][NextAll]_vars


\* ------------------------------------------------------------ the selector
\* ---- epoll (selector/epoll.rs)
\* From<EventSet> for EpollFlag
EpollFlag_from(evts) ==
    (IF "READABLE" \in evts THEN {"EPOLLIN"} ELSE {})
    \cup (IF "WRITABLE" \in evts THEN {"EPOLLOUT"} ELSE {})
    \cup (IF "ERROR" \in evts THEN {"EPOLLERR"} ELSE {})
    \cup (IF "HUP" \in evts THEN {"EPOLLRDHUP"} ELSE {})

\* Into<EventSet> for EpollFlag taking EPOLLHUP alone for a hang-up.
EpollFlag_into_hup_only(flags) ==
    (IF "EPOLLIN" \in flags THEN {"READABLE"} ELSE {})
    \cup (IF "EPOLLOUT" \in flags THEN {"WRITABLE"} ELSE {})
    \cup (IF "EPOLLERR" \in flags THEN {"ERROR"} ELSE {})
    \cup (IF "EPOLLHUP" \in flags THEN {"HUP"} ELSE {})

\* Into<EventSet> for EpollFlag
EpollFlag_into(flags) ==
    (IF "EPOLLIN" \in flags THEN {"READABLE"} ELSE {})
    \cup (IF "EPOLLOUT" \in flags THEN {"WRITABLE"} ELSE {})
    \cup (IF "EPOLLERR" \in flags THEN {"ERROR"} ELSE {})
    \cup (IF "EPOLLHUP" \in flags \/ "EPOLLRDHUP" \in flags THEN {"HUP"} ELSE {})

\* The kernel's epoll_ctl on an interest list: ADD fails on a descriptor that
\* is in the list (EEXIST), MOD and DEL on one that is not (ENOENT).
epoll_ctl(il, op, fd, events) ==
    CASE op = "EPOLL_CTL_ADD" ->
            IF il[fd].on THEN [il |-> il, ret |-> "EEXIST"]
            ELSE [il |-> [il EXCEPT ![fd] = [on |-> TRUE, events |-> events]],
                  ret |-> "Ok"]
      [] op = "EPOLL_CTL_MOD" ->
            IF ~il[fd].on THEN [il |-> il, ret |-> "ENOENT"]
            ELSE [il |-> [il EXCEPT ![fd] = [on |-> TRUE, events |-> events]],
                  ret |-> "Ok"]
      [] op = "EPOLL_CTL_DEL" ->
            IF ~il[fd].on THEN [il |-> il, ret |-> "ENOENT"]
            ELSE [il |-> [il EXCEPT ![fd] = [on |-> FALSE, events |-> {}]],
                  ret |-> "Ok"]

\* The flags the kernel finds on a descriptor.
EpollReady(conds) ==
    (IF "in" \in conds THEN {"EPOLLIN"} ELSE {})
    \cup (IF "out" \in conds THEN {"EPOLLOUT"} ELSE {})
    \cup (IF "err" \in conds THEN {"EPOLLERR"} ELSE {})
    \cup (IF "hup" \in conds THEN {"EPOLLHUP"} ELSE {})

\* The kernel's epoll_wait, level-triggered: one epoll_event for each
\* descriptor of the list with a flag it finds among those asked for;
\* EPOLLERR and EPOLLHUP are always asked for.
epoll_wait(il, ready) ==
    LET revents(fd) ==
            EpollReady(ready[fd]) \cap (il[fd].events \cup {"EPOLLERR", "EPOLLHUP"})
    IN  Entries([fd \in Fds |->
                      IF il[fd].on /\ revents(fd) # {}
                      THEN <<[events |-> revents(fd), data |-> fd]>>
                      ELSE <<>>])

\* Fired::from_epoll
from_epoll(epev) == [fd |-> epev.data, evset |-> EpollFlag_into(epev.events)]

\* The bits of an EventSet (event.rs:17-24) and of an EpollFlag.
EventSets == SUBSET {"READABLE", "WRITABLE", "ERROR", "HUP"}
EpollFlags == SUBSET {"EPOLLIN", "EPOLLOUT", "EPOLLERR", "EPOLLHUP", "EPOLLRDHUP"}

\* EpollFlag::from(evts) is called.
EpollFrom(evts) ==
    /\ ep_evts' = evts
    /\ ep_flag' = EpollFlag_from(evts)
    /\ UNCHANGED <<ringVars, memVars, pAlive, cAlive, prodVars, consVars,
                   histVars, capVars, arc, rsv, munmaps, shmfd, closes, shmname,
                   ringerr, shmVars, selVars, stackVars, nbVars, rfVars,
                   ep_events, ep_evset>>

\* Fired::from_epoll is called on an epoll_event with the events flags.
EpollInto(flags) ==
    /\ ep_events' = flags
    /\ ep_evset' = from_epoll([events |-> flags, data |-> 1]).evset
    /\ UNCHANGED <<ringVars, memVars, pAlive, cAlive, prodVars, consVars,
                   histVars, capVars, arc, rsv, munmaps, shmfd, closes, shmname,
                   ringerr, shmVars, selVars, stackVars, nbVars, rfVars,
                   ep_evts, ep_flag>>

\* The conversions applied to every mask and to every set of kernel flags,
\* the flags EpollFlag::from returned among them.
NextEp ==
    \/ \E evts \in EventSets : EpollFrom(evts)
    \/ \E flags \in EpollFlags : EpollInto(flags)

\* The conversions used in a process that holds no ring and no selector.
SpecEp == InitNew /\ [][NextEp]_vars

\* ---- kqueue (selector/kqueue.rs)
\* Into<EventSet> for EventFilter
EventFilter_into(filter) ==
    IF filter = "EVFILT_READ" THEN {"READABLE"} ELSE {"WRITABLE"}

\* The kernel applying one change (kevent with a changelist of one entry and
\* no event list) to the knotes.  EV_DELETE of a knote that does not exist
\* fails (ENOENT).  EV_ADD creates the knote or modifies the one there, and
\* EV_ENABLE / EV_DISABLE set its status; a change with both set is settled
\* as the kernel at hand settles it (wins).
kevent_change(kn, ke, wins) ==
    LET cur == kn[ke.ident][ke.filter]
        status ==
            IF "EV_ENABLE" \in ke.flags /\ "EV_DISABLE" \in ke.flags
            THEN (IF wins THEN "enabled" ELSE "disabled")
            ELSE IF "EV_ENABLE" \in ke.flags THEN "enabled"
            ELSE IF "EV_DISABLE" \in ke.flags THEN "disabled"
            ELSE IF cur = "absent" THEN "enabled"
            ELSE cur
    IN  IF "EV_DELETE" \in ke.flags
        THEN IF cur = "absent" THEN [kn |-> kn, ret |-> "ENOENT"]
             ELSE [kn |-> [kn EXCEPT ![ke.ident][ke.filter] = "absent"],
                   ret |-> "Ok"]
        ELSE IF "EV_ADD" \in ke.flags \/ cur # "absent"
        THEN [kn |-> [kn EXCEPT ![ke.ident][ke.filter] = status], ret |-> "Ok"]
        ELSE [kn |-> kn, ret |-> "ENOENT"]

\* The kernel's kevent with an empty changelist, level-triggered: one kevent
\* for each enabled knote whose filter fires.  A hang-up or an error fires
\* both filters and is flagged EV_EOF.
kevent_poll(kn, ready) ==
    LET fires(fd, filter) ==
            /\ kn[fd][filter] = "enabled"
            /\ \/ filter = "EVFILT_READ" /\ "in" \in ready[fd]
               \/ filter = "EVFILT_WRITE" /\ "out" \in ready[fd]
               \/ ready[fd] \cap {"hup", "err"} # {}
        entry(fd, filter) ==
            IF fires(fd, filter)
            THEN <<[ident |-> fd, filter |-> filter,
                    flags |-> IF ready[fd] \cap {"hup", "err"} # {}
                              THEN {"EV_EOF"} ELSE {}]>>
            ELSE <<>>
    IN  Entries([fd \in Fds |->
                      entry(fd, "EVFILT_READ") \o entry(fd, "EVFILT_WRITE")])

\* Fired::from_kevent
from_kevent(kevt) == [fd |-> kevt.ident, evset |-> EventFilter_into(kevt.filter)]

\* kqueue Selector::register, the changes it submits, in order: ke is
\* rebuilt from itself for each change, so the change for EVFILT_WRITE
\* inherits the flags of the one for EVFILT_READ.
kqueue_register_changes(fd, evts) ==
    LET ke0 == [ident |-> fd, filter |-> "none", flags |-> {"EV_ADD"}]
        ke1 == [ke0 EXCEPT !.filter = "EVFILT_READ",
                           !.flags = ke0.flags \cup
                               (IF "READABLE" \in evts THEN {"EV_ENABLE"}
                                ELSE {"EV_DISABLE"})]
        ke2 == [ke1 EXCEPT !.filter = "EVFILT_WRITE",
                           !.flags = ke1.flags \cup
                               (IF "WRITABLE" \in evts THEN {"EV_ENABLE"}
                                ELSE {"EV_DISABLE"})]
    IN  <<ke1, ke2>>

\* kqueue Selector::register: one kevent call per change, try! returning the
\* first error.
kqueue_register(kn, fd, evts, wins) ==
    LET ch == kqueue_register_changes(fd, evts)
        r1 == kevent_change(kn, ch[1], wins)
        r2 == kevent_change(r1.kn, ch[2], wins)
    IN  IF r1.ret # "Ok" THEN r1 ELSE r2

\* kqueue Selector::deregister
kqueue_deregister(kn, fd, wins) ==
    LET ke == [ident |-> fd, filter |-> "none", flags |-> {"EV_DELETE"}]
        r1 == kevent_change(kn, [ke EXCEPT !.filter = "EVFILT_READ"], wins)
        r2 == kevent_change(r1.kn, [ke EXCEPT !.filter = "EVFILT_WRITE"], wins)
    IN  IF r1.ret # "Ok" THEN r1 ELSE r2

\* ---- select (selector/select.rs)
\* find_max: the range prev_max..0 counts upwards.
find_max(set, prev_max) ==
    LET found == {i \in prev_max..(0 - 1) : i \in set}
    IN  IF found # {}
        THEN CHOOSE i \in found : \A j \in found : i <= j
        ELSE 0

\* select Selector::register
select_register(sel, fd, evset) ==
    LET s1 == IF "READABLE" \in evset
              THEN [sel EXCEPT !.rfds = @ \cup {fd}, !.maxfd = Max(fd, @)]
              ELSE sel
    IN  IF "WRITABLE" \in evset
        THEN [s1 EXCEPT !.wfds = @ \cup {fd}, !.maxfd = Max(fd, @)]
        ELSE s1

\* select Selector::deregister: FD_CLR on rfds, twice.
select_deregister(sel, fd) ==
    LET s1 == [sel EXCEPT !.rfds = (@ \ {fd}) \ {fd}]
    IN  IF fd = s1.maxfd
        THEN [s1 EXCEPT !.maxfd = Max(find_max(s1.rfds, fd), find_max(s1.wfds, fd))]
        ELSE s1

\* select Selector::reregister
select_reregister(sel, fd, evset) ==
    IF evset \cap {"READABLE", "WRITABLE"} # {}
    THEN select_register(sel, fd, evset)
    ELSE select_deregister(sel, fd)

\* The kernel's select(nfds, r, w): of the descriptors below nfds it keeps
\* those that would not block; the bits from nfds on are not looked at.
\* A hang-up makes a descriptor readable, an error readable and writable.
select(nfds, r, w, ready) ==
    [rfds |-> {fd \in r : fd >= nfds \/ ready[fd] \cap {"in", "hup", "err"} # {}},
     wfds |-> {fd \in w : fd >= nfds \/ ready[fd] \cap {"out", "err"} # {}}]

\* Iter::next, from curfd = 0 until the iterator is exhausted.
Iter(imaxfd, irfds, iwfds) ==
    Entries([fd \in Fds |->
                  IF fd <= imaxfd /\ (fd \in irfds \/ fd \in iwfds)
                  THEN <<[fd |-> fd,
                          evset |-> (IF fd \in irfds THEN {"READABLE"} ELSE {})
                                    \cup (IF fd \in iwfds THEN {"WRITABLE"} ELSE {})]>>
                  ELSE <<>>])

\* ---- the Selector of the backend compiled in (selector/mod.rs)
Backends == {"epoll", "kqueue", "select"}

\* The selector's own state, with the result ret of the call that left it.
Now(ret) ==
    [interest |-> interest, knotes |-> knotes,
     sel |-> [maxfd |-> maxfd, rfds |-> rfds, wfds |-> wfds],
     ret |-> ret]

\* Selector::register
Selector_register(fd, evts) ==
    CASE backend = "epoll" ->
            LET r == epoll_ctl(interest, "EPOLL_CTL_ADD", fd, EpollFlag_from(evts))
            IN  [Now(r.ret) EXCEPT !.interest = r.il]
      [] backend = "kqueue" ->
            LET r == kqueue_register(knotes, fd, evts, enableWins)
            IN  [Now(r.ret) EXCEPT !.knotes = r.kn]
      [] backend = "select" ->
            [Now("Ok") EXCEPT !.sel = select_register(@, fd, evts)]

\* Selector::reregister
Selector_reregister(fd, evts) ==
    CASE backend = "epoll" ->
            LET r == epoll_ctl(interest, "EPOLL_CTL_MOD", fd, EpollFlag_from(evts))
            IN  [Now(r.ret) EXCEPT !.interest = r.il]
      [] backend = "kqueue" ->
            LET r == kqueue_register(knotes, fd, evts, enableWins)
            IN  [Now(r.ret) EXCEPT !.knotes = r.kn]
      [] backend = "select" ->
            [Now("Ok") EXCEPT !.sel = select_reregister(@, fd, evts)]

\* Selector::deregister
Selector_deregister(fd) ==
    CASE backend = "epoll" ->
            LET r == epoll_ctl(interest, "EPOLL_CTL_DEL", fd, {})
            IN  [Now(r.ret) EXCEPT !.interest = r.il]
      [] backend = "kqueue" ->
            LET r == kqueue_deregister(knotes, fd, enableWins)
            IN  [Now(r.ret) EXCEPT !.knotes = r.kn]
      [] backend = "select" ->
            [Now("Ok") EXCEPT !.sel = select_deregister(@, fd)]

\* ---- the timeout of a poll ----

\* A Duration, in nanoseconds.  time::Duration (epoll.rs, kqueue.rs) is signed,
\* std::time::Duration (select.rs:5) is not.
Durations == {-1500000, -500000, 0, 500000, 1500000}

NoTimeout == [some |-> FALSE, ns |-> 0]
SomeTimeout(d) == [some |-> TRUE, ns |-> d]
AllTimeouts == {NoTimeout} \cup {SomeTimeout(d) : d \in Durations}
Timeouts(b) ==
    IF b = "select" THEN {t \in AllTimeouts : t.ns >= 0} ELSE AllTimeouts

\* How the kernel waits: until something is ready, until then or the timeout's
\* end, not at all, or it rejects the timeout with EINVAL.
Waits == {"indefinite", "timed", "immediate", "EINVAL"}

\* Integer division rounding toward zero, as Rust's / and time::Duration do.
Quot(a, b) == IF a >= 0 THEN a \div b ELSE -((-a) \div b)

\* time::Duration::num_milliseconds, num_seconds
num_milliseconds(d) == Quot(d, 1000000)
num_seconds(d) == Quot(d, 1000000000)

\* epoll: poll() is poll_timeout(Duration::milliseconds(-1)), and epoll_wait
\* passes timeout.num_milliseconds() as its timeout argument.
epoll_timeout(timeout) ==
    num_milliseconds(IF timeout.some THEN timeout.ns ELSE -1000000)

\* epoll_wait(2): a negative timeout waits indefinitely, zero returns at once.
epoll_wait_mode(ms) ==
    IF ms < 0 THEN "indefinite" ELSE IF ms = 0 THEN "immediate" ELSE "timed"

\* kqueue: the timespec kevent() builds from Some(dur).
kevent_timespec(d) ==
    LET sec == num_seconds(d)
    IN  [tv_sec |-> sec, tv_nsec |-> d - sec * 1000000000]

\* kevent(2) on a timespec: EINVAL unless 0 <= tv_sec and 0 <= tv_nsec < 10^9.
timespec_mode(ts) ==
    IF ts.tv_sec < 0 \/ ts.tv_nsec < 0 \/ ts.tv_nsec >= 1000000000 THEN "EINVAL"
    ELSE IF ts.tv_sec = 0 /\ ts.tv_nsec = 0 THEN "immediate" ELSE "timed"

\* select: the timeval select() builds from Some(dur): as_secs and, in the
\* microseconds field, subsec_nanos.
select_timeval(d) ==
    [tv_sec |-> d \div 1000000000, tv_usec |-> d % 1000000000]

\* select(2) on a timeval: with tv_usec of a second or more a kernel either
\* rejects it (BSD, macOS) or carries the excess into the seconds (Linux).
timeval_modes(tv) ==
    IF tv.tv_usec >= 1000000 THEN {"EINVAL", "timed"}
    ELSE IF tv.tv_sec = 0 /\ tv.tv_usec = 0 THEN {"immediate"} ELSE {"timed"}

\* kevent() and select() take the address of a temporary timespec/timeval
\* that is dead when the system call reads it (kqueue.rs:112-115,
\* select.rs:33-36): the kernel acts on the value built, or on whatever the
\* slot holds by then.
Dangling == {"timed", "immediate", "EINVAL"}

\* The waits the kernel can take for the timeout of poll / poll_timeout.
Selector_wait(timeout) ==
    CASE backend = "epoll" -> {epoll_wait_mode(epoll_timeout(timeout))}
      [] backend = "kqueue" ->
            IF timeout.some
            THEN {timespec_mode(kevent_timespec(timeout.ns))} \cup Dangling
            ELSE {"indefinite"}
      [] backend = "select" ->
            IF timeout.some
            THEN timeval_modes(select_timeval(timeout.ns)) \cup Dangling
            ELSE {"indefinite"}

\* Selector::poll / poll_timeout with the iterator run to its end: the Fired
\* values in the order of the kernel's entries (here by descriptor).
Selector_poll(ready) ==
    CASE backend = "epoll" ->
            LET evs == epoll_wait(interest, ready)
            IN  [i \in 1..Len(evs) |-> from_epoll(evs[i])]
      [] backend = "kqueue" ->
            LET evs == kevent_poll(knotes, ready)
            IN  [i \in 1..Len(evs) |-> from_kevent(evs[i])]
      [] backend = "select" ->
            LET out == select(maxfd + 1, rfds, wfds, ready)
            IN  Iter(maxfd, out.rfds, out.wfds)

ringAll ==
    <<ringVars, memVars, pAlive, cAlive, prodVars, consVars, histVars, capVars,
      resVars, stackVars>>

\* The call leaves the selector as e says.
Leave(e) ==
    /\ interest' = e.interest
    /\ knotes' = e.knotes
    /\ maxfd' = e.sel.maxfd /\ rfds' = e.sel.rfds /\ wfds' = e.sel.wfds
    /\ sret' = e.ret
    /\ ptimeout' = [some |-> FALSE, ns |-> 0]
    /\ kwait' = "none"
    /\ UNCHANGED <<iterating, kready, fired>>

\* register(fd, evts) on a descriptor that is not registered (4.2.1).
Register(fd, evts) ==
    LET e == Selector_register(fd, evts)
    IN  /\ backend \in Backends
        /\ ~iterating
        /\ ~regmask[fd].on
        /\ Leave(e)
        /\ IF e.ret = "Ok"
           THEN /\ regmask' = [regmask EXCEPT ![fd] = [on |-> TRUE, evset |-> evts]]
                /\ dereg' = dereg \ {fd}
           ELSE UNCHANGED <<regmask, dereg>>
        /\ UNCHANGED <<ringAll, backend, enableWins>>

\* reregister(fd, evts) on a registered descriptor; with the empty mask the
\* descriptor counts as deregistered from then on (4.2.1).
Reregister(fd, evts) ==
    LET e == Selector_reregister(fd, evts)
    IN  /\ backend \in Backends
        /\ ~iterating
        /\ regmask[fd].on
        /\ Leave(e)
        /\ IF e.ret = "Ok"
           THEN regmask' = [regmask EXCEPT ![fd] =
                               IF evts = {} THEN Unregistered
                               ELSE [on |-> TRUE, evset |-> evts]]
           ELSE UNCHANGED regmask
        /\ UNCHANGED <<ringAll, backend, enableWins, dereg>>

\* deregister(fd) on a registered descriptor.
Deregister(fd) ==
    LET e == Selector_deregister(fd)
    IN  /\ backend \in Backends
        /\ ~iterating
        /\ regmask[fd].on
        /\ Leave(e)
        /\ IF e.ret = "Ok"
           THEN /\ regmask' = [regmask EXCEPT ![fd] = Unregistered]
                /\ dereg' = dereg \cup {fd}
           ELSE UNCHANGED <<regmask, dereg>>
        /\ UNCHANGED <<ringAll, backend, enableWins>>

\* poll() (timeout = NoTimeout) or poll_timeout(dt): the kernel takes the wait
\* w, one of those the call's timeout argument can reach it as, and finds the
\* conditions ready on the descriptors.  A wait that has nothing to report
\* sleeps, and a signal handled during the sleep (eintr) ends the system call
\* with EINTR; the wrappers hand every -1 to the caller through try!.
Poll(ready, timeout, w, eintr) ==
    LET out == Selector_poll(ready)
    IN  /\ backend \in Backends
        /\ ~iterating
        /\ timeout \in Timeouts(backend)
        /\ w \in Selector_wait(timeout)
        /\ eintr => (w \in {"indefinite", "timed"} /\ out = <<>>)
        /\ (w = "indefinite" /\ out = <<>>) => eintr
        /\ ptimeout' = timeout
        /\ kwait' = w
        /\ IF w = "EINVAL" \/ eintr
           THEN /\ sret' = (IF eintr THEN "EINTR" ELSE "EINVAL")
                /\ UNCHANGED <<iterating, fired, kready>>
           ELSE /\ iterating' = TRUE
                /\ fired' = out
                /\ kready' = ready
                /\ sret' = "Ok"
        /\ UNCHANGED <<ringAll, backend, enableWins, interest, knotes, maxfd,
                       rfds, wfds, regmask, dereg>>

\* The iterator has been run to its end and is dropped.  IterFired borrows
\* the Selector (epoll.rs:250, kqueue.rs:273), so the calls above wait for it.
IterDrop ==
    /\ iterating
    /\ iterating' = FALSE
    /\ kready' = [fd \in Fds |-> {}]
    /\ fired' = <<>>
    /\ ptimeout' = [some |-> FALSE, ns |-> 0]
    /\ kwait' = "none"
    /\ UNCHANGED <<ringAll, backend, enableWins, interest, knotes, maxfd,
                   rfds, wfds, regmask, dereg, sret>>

\* ---- the backend of a build (selector/mod.rs) ----

TargetOs ==
    {"linux", "freebsd", "openbsd", "netbsd", "bitrig", "dragonfly", "macos",
     "windows"}

\* The backend modules whose #[cfg] holds for the build: feature is the
\* cargo feature "select", os the target_os.
selector_mods(feature, os) ==
    {b \in Backends :
        \/ b = "epoll" /\ ~feature /\ os = "linux"
        \/ b = "kqueue" /\ ~feature
                        /\ os \in {"freebsd", "openbsd", "netbsd", "bitrig",
                                   "dragonfly"}
        \/ b = "select" /\ (feature \/ os = "macos")}

\* The module behind selector::Selector: the one compiled in; with none (or
\* two) the name does not resolve and there is no crate to use.
selector_backend(feature, os) ==
    IF Cardinality(selector_mods(feature, os)) = 1
    THEN CHOOSE b \in selector_mods(feature, os) : TRUE
    ELSE "none"

\* The crate is built for a target and Selector::new returns Ok.  Which way
\* the kernel settles EV_ENABLE with EV_DISABLE matters to kqueue only.
Build(feature, os, wins) ==
    /\ backend = "unbuilt"
    /\ backend' = selector_backend(feature, os)
    /\ wins => backend' = "kqueue"
    /\ enableWins' = wins
    /\ UNCHANGED <<ringAll, interest, knotes, maxfd, rfds, wfds, regmask, dereg,
                   sret, iterating, kready, fired, ptimeout, kwait>>

\* Before the build, no ring in use.
InitSel ==
    /\ \E ps \in SmallPageSizes : pagesize = ps
    /\ NoRing
    /\ backend = "unbuilt"
    /\ enableWins = FALSE
    /\ EmptySelector

NextSel ==
    \/ \E feature \in BOOLEAN, os \in TargetOs, wins \in BOOLEAN :
          Build(feature, os, wins)
    \/ \E fd \in Fds, evts \in Masks : Register(fd, evts)
    \/ \E fd \in Fds, evts \in Masks : Reregister(fd, evts)
    \/ \E fd \in Fds : Deregister(fd)
    \/ \E ready \in [Fds -> ReadyKinds], timeout \in AllTimeouts, w \in Waits,
          eintr \in BOOLEAN : Poll(ready, timeout, w, eintr)
    \/ IterDrop

SpecSel == InitSel /\ [][NextSel]_vars

\* ------------------------------------------------- the stream helpers
\* ---- read_nb, write_nb (io.rs)
\* What self.read / self.write can return on a slice of len bytes of which a
\* reader has avail to give: Ok(k) with k <= len (the contract of Read and
\* Write), or an error.  "Other" stands for every kind of error besides the
\* two the helpers look for.
ErrorKinds == {"Interrupted", "WouldBlock", "Other"}
InnerResults(len, avail) ==
    {IoOk(k) : k \in 0..Min(len, avail)} \cup {IoErr(kind) : kind \in ErrorKinds}

\* The match of read_nb / write_nb handing an Interrupted error on.
nb_match_no_retry(n, out) ==
    CASE out.tag = "Ok" /\ out.n = 0 -> [pc |-> "idle", n |-> n, ret |-> IoOk(n)]
      [] out.tag = "Ok" /\ out.n > 0 -> [pc |-> "loop", n |-> n + out.n, ret |-> IoNone]
      [] out.kind = "WouldBlock" -> [pc |-> "idle", n |-> n, ret |-> IoOk(n)]
      [] OTHER -> [pc |-> "idle", n |-> n, ret |-> out]

\* The match of read_nb (io.rs:16-22) and of write_nb (io.rs:38-44) on what
\* the inner call returned, n bytes moved so far: where the loop goes, the
\* new count, and the value returned if it returns.
nb_match(n, out) ==
    CASE out.tag = "Ok" /\ out.n = 0 -> [pc |-> "idle", n |-> n, ret |-> IoOk(n)]
      [] out.tag = "Ok" /\ out.n > 0 -> [pc |-> "loop", n |-> n + out.n, ret |-> IoNone]
      [] out.kind = "Interrupted" -> [pc |-> "loop", n |-> n, ret |-> IoNone]
      [] out.kind = "WouldBlock" -> [pc |-> "idle", n |-> n, ret |-> IoOk(n)]
      [] OTHER -> [pc |-> "idle", n |-> n, ret |-> out]

\* The i-th byte a reader hands over; zero is a byte like any other.
Stream(i) == i % 3

Zeros(n) == [i \in 1..n |-> 0]

\* read_nb(buf) or write_nb(buf) is called on a slice of len bytes, by a
\* caller of its own; what an earlier read_from left is no longer looked at.
NbCall(op, len) ==
    /\ nb_pc = "idle" /\ rf_pc = "idle"
    /\ nb_op' = op
    /\ nb_pc' = "loop"
    /\ nb_len' = len
    /\ nb_n' = 0 /\ nb_moved' = 0
    /\ nb_last' = "none" /\ nb_ret' = IoNone
    /\ rf_kind' = "none" /\ rf_pc' = "idle"
    /\ rf_buf' = <<>> /\ rf_len' = 0 /\ rf_start_len' = 0 /\ rf_nws' = 0
    /\ rf_ret' = IoNone
    /\ rf_prev' = <<>> /\ rf_got' = <<>>
    /\ UNCHANGED <<ringVars, memVars, pAlive, cAlive, prodVars, consVars,
                   histVars, capVars, arc, rsv, munmaps, shmfd, closes, shmname,
                   ringerr, shmVars, selVars, stackVars, epVars>>

\* An iteration of the loop that finds the slice full (io.rs:12-14, 34-36).
NbFull ==
    /\ nb_pc = "loop"
    /\ nb_n = nb_len
    /\ nb_pc' = "idle"
    /\ nb_ret' = IoOk(nb_n)
    /\ nb_last' = "none"
    /\ UNCHANGED <<ringVars, memVars, pAlive, cAlive, prodVars, consVars,
                   histVars, capVars, arc, rsv, munmaps, shmfd, closes, shmname,
                   ringerr, shmVars, selVars, stackVars, epVars, rfVars,
                   nb_op, nb_len, nb_n, nb_moved>>

\* An iteration of the loop that makes the inner call, which returns out.
\* Inside read_from the bytes read land in self from len + nread on.
NbInner(out) ==
    LET r == nb_match(nb_n, out)
        at == rf_len + nb_n
    IN  /\ nb_pc = "loop"
        /\ nb_n # nb_len
        /\ out \in InnerResults(nb_len - nb_n,
                                IF rf_pc = "read_nb" THEN MaxStream - Len(rf_got)
                                ELSE nb_len)
        /\ nb_pc' = r.pc
        /\ nb_n' = r.n
        /\ nb_ret' = r.ret
        /\ nb_last' = IF out.tag = "Ok" THEN "Ok" ELSE out.kind
        /\ nb_moved' = nb_moved + out.n
        /\ IF rf_pc = "read_nb" /\ out.n > 0
           THEN /\ rf_buf' = [i \in 1..Len(rf_buf) |->
                                 IF at < i /\ i <= at + out.n
                                 THEN Stream(Len(rf_got) + i - at)
                                 ELSE rf_buf[i]]
                /\ rf_got' = rf_got \o [i \in 1..out.n |-> Stream(Len(rf_got) + i)]
           ELSE UNCHANGED <<rf_buf, rf_got>>
        /\ UNCHANGED <<ringVars, memVars, pAlive, cAlive, prodVars, consVars,
                       histVars, capVars, arc, rsv, munmaps, shmfd, closes,
                       shmname, ringerr, shmVars, selVars, stackVars, epVars,
                       nb_op, nb_len, rf_kind, rf_pc, rf_len, rf_start_len,
                       rf_nws, rf_ret, rf_prev>>

\* ---- Buffer::read_from (buf.rs)
\* The buffers read_from is called on.
PrevContents == {[i \in 1..n |-> 1 + (i % 2)] : n \in 0..MaxPrev}

\* read_from(r) is called on a Vec<u8> or a VecDeque<u8> holding prev
\* (buf.rs:51-54, 105-108).
ReadFrom(kind, prev) ==
    /\ nb_pc = "idle" /\ rf_pc = "idle"
    /\ rf_kind' = kind
    /\ rf_pc' = "top"
    /\ rf_buf' = prev /\ rf_prev' = prev
    /\ rf_start_len' = Len(prev) /\ rf_len' = Len(prev)
    /\ rf_nws' = InitialWriteSize
    /\ rf_ret' = IoNone
    /\ rf_got' = <<>>
    /\ nb_op' = "none" /\ nb_pc' = "idle"
    /\ nb_len' = 0 /\ nb_n' = 0 /\ nb_moved' = 0
    /\ nb_last' = "none" /\ nb_ret' = IoNone
    /\ UNCHANGED <<ringVars, memVars, pAlive, cAlive, prodVars, consVars,
                   histVars, capVars, arc, rsv, munmaps, shmfd, closes, shmname,
                   ringerr, shmVars, selVars, stackVars, epVars>>

\* The head of the loop up to the call of read_nb (buf.rs:57-74, 111-118):
\* the buffer grows when len has reached its end, and read_nb is called on
\* self[len..].  A VecDeque hands out its contents as two slices, the first
\* of b1 bytes, wherever its ring wraps: read_nb gets the rest of the first
\* slice if len lies in it, else the second slice from len on.
ReadFromTop(b1) ==
    LET grow == rf_len = Len(rf_buf)
        nws == IF grow /\ rf_nws < BUFSIZE THEN rf_nws * 2 ELSE rf_nws
        self == IF grow THEN rf_buf \o Zeros(nws) ELSE rf_buf
        buf_len == IF rf_kind = "VecDeque" /\ b1 > rf_len
                   THEN b1 - rf_len
                   ELSE Len(self) - rf_len
    IN  /\ rf_pc = "top"
        /\ b1 \in 1..Len(self)
        /\ rf_kind = "Vec" => b1 = Len(self)
        /\ rf_nws' = nws
        /\ rf_buf' = self
        /\ rf_pc' = "read_nb"
        /\ nb_op' = "read_nb"
        /\ nb_pc' = "loop"
        /\ nb_len' = buf_len
        /\ nb_n' = 0 /\ nb_moved' = 0
        /\ nb_last' = "none" /\ nb_ret' = IoNone
        /\ UNCHANGED <<ringVars, memVars, pAlive, cAlive, prodVars, consVars,
                       histVars, capVars, arc, rsv, munmaps, shmfd, closes,
                       shmname, ringerr, shmVars, selVars, stackVars, epVars,
                       rf_kind, rf_len, rf_start_len, rf_ret, rf_prev, rf_got>>

\* The match on what read_nb returned (buf.rs:74-84, 118-128) and, when the
\* loop breaks, the truncate and the return (buf.rs:87-88, 131-132).
ReadFromMatch ==
    /\ rf_pc = "read_nb" /\ nb_pc = "idle"
    /\ IF nb_ret.tag = "Ok" /\ nb_ret.n > 0
       THEN /\ rf_len' = rf_len + nb_ret.n
            /\ rf_pc' = "top"
            /\ UNCHANGED <<rf_buf, rf_ret>>
       ELSE /\ rf_ret' = IF nb_ret.tag = "Ok" THEN IoOk(rf_len - rf_start_len)
                          ELSE nb_ret
            /\ rf_buf' = SubSeq(rf_buf, 1, rf_len)
            /\ rf_pc' = "idle"
            /\ UNCHANGED rf_len
    /\ UNCHANGED <<ringVars, memVars, pAlive, cAlive, prodVars, consVars,
                   histVars, capVars, arc, rsv, munmaps, shmfd, closes, shmname,
                   ringerr, shmVars, selVars, stackVars, epVars, nbVars,
                   rf_kind, rf_start_len, rf_nws, rf_prev, rf_got>>

\* The longest self gets: each resize adds at most twice what the reader
\* has handed over and the first 32 bytes.
MaxSelf == MaxPrev + 2 * MaxStream + 6 * InitialWriteSize

NextIo ==
    \/ \E op \in {"read_nb", "write_nb"}, len \in 0..MaxBuf : NbCall(op, len)
    \/ NbFull
    \/ \E out \in InnerResults(Max(MaxBuf, MaxStream), MaxStream) : NbInner(out)
    \/ \E kind \in {"Vec", "VecDeque"}, prev \in PrevContents : ReadFrom(kind, prev)
    \/ \E b1 \in 1..MaxSelf : ReadFromTop(b1)
    \/ ReadFromMatch

\* The helpers used in a process that holds no ring and no selector.
InitIo ==
    /\ pagesize \in SmallPageSizes
    /\ NoRing
    /\ NoSelector

SpecIo == InitIo /\ [][NextIo]_vars

\* ------------------------------------------------------------------ claims
IsPrefix(a, b) == Len(a) <= Len(b) /\ SubSeq(b, 1, Len(a)) = a

\* The consumer has made no call yet.
NoReader == cpc = "idle" /\ cret = NoCall /\ tail = 0

\* C1: under every interleaving of the producer's and the consumer's
\* transfers, the bytes the consumer has read so far are a prefix of the
\* bytes the producer's writes accepted, in order.
C1_FifoPrefix == IsPrefix(consumed, written)

\* C2: in every reachable state 0 <= head - tail <= cap, and no step makes
\* head or tail smaller.
C2_CounterBounds ==
    /\ [](0 <= head - tail /\ head - tail <= cap)
    /\ [][head' >= head /\ tail' >= tail]_vars

C2_Witness == head - tail = cap /\ tail > 0 /\ ppc = "idle" /\ cpc = "idle"

\* C3: a non-blocking write of a buffer of length L returns
\* min(L, cap - (head - tail)) and advances head by it, a non-blocking read
\* into a buffer of length L returns min(L, head - tail) and advances tail
\* by it, head and tail being those loaded when the call began; so a write
\* on a full ring and a read on an empty ring return 0, and with no reader
\* the writes of non-empty buffers accept exactly cap bytes in total before
\* one returns 0.
C3_TransferCounts ==
    [][ /\ (ppc = "unblock" /\ ppc' = "idle" /\ ~pblocking) =>
              /\ pret' = Usize(Min(Len(pbuf), cap - (p_head - p_tail)))
              /\ head = p_head + pret'.n
              /\ (p_head - p_tail = cap => pret'.n = 0)
              /\ (NoReader /\ Len(pbuf) > 0 /\ pret'.n = 0) =>
                     (head = cap /\ Len(written) = cap)
        /\ (cpc = "unblock" /\ cpc' = "idle" /\ ~cblocking) =>
              /\ cret' = Usize(Min(clen, c_head - c_tail))
              /\ tail = c_tail + cret'.n
              /\ (c_head = c_tail => cret'.n = 0)
      ]_vars

\* With no reader, a write of a non-empty buffer is about to return 0: the
\* earlier writes accepted cap bytes.
C3_Witness ==
    /\ ppc = "unblock" /\ ~pblocking /\ Len(pbuf) > 0 /\ p_nwrit = 0
    /\ NoReader /\ head = cap

\* C4: the bytes that one write accepted starting at head position wstart
\* (any position, also one where (wstart & mask) + length exceeds cap) are
\* what the following read returns, when that read starts at wstart with
\* the producer idle and its buffer is at least as long: it reads all of
\* them, and reads them unchanged.
C4_RoundTrip ==
    [][ ( /\ cpc = "copy" /\ cpc' = "store"
          /\ ppc = "idle"
          /\ head > wstart /\ c_tail = wstart /\ c_head = head
          /\ clen >= head - wstart )
        => ( /\ c_nread = head - wstart
             /\ cdata' = SubSeq(written, wstart + 1, head) )
      ]_vars

\* A non-blocking read has just copied out a blob that straddles the end of
\* the first mapping.
C4_Witness ==
    /\ cpc = "store" /\ ~cblocking /\ ppc = "idle"
    /\ c_tail = wstart /\ c_head = head /\ c_nread = head - wstart
    /\ c_nread > 1
    /\ BitAnd(c_tail, mask) + c_nread > cap
    /\ cdata = SubSeq(written, wstart + 1, head)

\* A blocking read that can move no byte, the producer being gone.
ConsumerStuck ==
    /\ ~pAlive /\ cblocking /\ cpc # "idle"
    /\ head = tail
    /\ (cpc \in {"copy", "store", "unblock"} => c_nread = 0)

\* A blocking write that can move no byte, the consumer being gone.
ProducerStuck ==
    /\ ~cAlive /\ pblocking /\ ppc # "idle"
    /\ head - tail = cap
    /\ (ppc \in {"copy", "store", "unblock"} => p_nwrit = 0)

C6_NoneOnlyWhenDrained ==
    [][ (cpc = "block" /\ cpc' = "idle" /\ ~pAlive /\ clen > 0)
        => head = tail ]_vars

\* C7: a blocking write that begins after the consumer was dropped returns
\* None, never Some(n).
C7_WriteNoneAfterDrop ==
    [][ (ppc # "idle" /\ ppc' = "idle" /\ pblocking /\ ppeerGone)
        => pret' = None ]_vars

\* C8: once the state is Disconnected no step changes it.
C8_DisconnectedTerminal ==
    [][state = "Disconnected" => state' = "Disconnected"]_vars

\* A blocking read begun after the producer's drop has been through
\* unblock() and reached block(), and the state is still Disconnected.
C8_Witness == state = "Disconnected" /\ cpeerGone /\ cpc = "block"

\* Counter values around the capacity.
Counters == {0, 1, cap - 1, cap, cap + 1, 2 * cap - 1, 2 * cap, 3 * cap + 1}

\* C9: for every requested capacity the ring's cap is a power of two that
\* is at least the page size, mask = cap - 1, and counter & mask is
\* counter mod cap.
C9_CapPowerOfTwo ==
    ringres = "Ok" =>
        /\ IsPow2(cap)
        /\ cap >= pagesize
        /\ mask = cap - 1
        /\ \A n \in Counters : BitAnd(n, mask) = n % cap

\* C10: both endpoints report the same capacity, the one of the
\* construction, which no step changes; it is a multiple of the page size
\* and at least max(c, 1); ring(1 << 16) reports 65536 and ring(0) the page
\* size rounded up to a power of two.
C10_Capacity ==
    /\ [](ringres = "Ok" =>
            /\ cap % pagesize = 0
            /\ cap >= (IF req = 0 THEN 1 ELSE req)
            /\ (req = 65536 => cap = 65536)
            /\ (req = 0 => cap = NextPow2(pagesize))
            /\ pcapacity \in {None, Usize(cap)}
            /\ ccapacity \in {None, Usize(cap)})
    /\ [][ringres = "Ok" => cap' = cap]_vars

C10_Witness ==
    /\ ringres = "Ok" /\ req = 65536
    /\ pcapacity = Usize(65536) /\ ccapacity = Usize(65536)

\* C11: the 2*cap mapping stays mapped as long as at least one handle is
\* alive; it is unmapped exactly once, through Ring.map, when the second
\* handle is dropped, in either order; the first drop only disconnects.
C11_MappedWhileAlive ==
    /\ (pAlive \/ cAlive) => rsv = "mapped" /\ munmaps = <<>>
    /\ (~pAlive /\ ~cAlive) => rsv = "unmapped" /\ munmaps = <<"map">>
    /\ (pAlive # cAlive) => state = "Disconnected" /\ arc = 1

\* Both handles are gone after bytes went through the ring.
C11_Witness ==
    /\ ~pAlive /\ ~cAlive /\ arc = 0
    /\ munmaps = <<"map">>
    /\ consumed # <<>>

\* C12 as stated: the shm descriptor is open while a handle is alive and is
\* closed, once, by the final drop.
C12_FdOpenForLife ==
    ringres = "Ok" =>
        IF pAlive \/ cAlive
        THEN shmfd = "open" /\ closes = 0
        ELSE shmfd = "closed" /\ closes = 1

\* C12, amended: the shm descriptor is closed exactly once, by the return of
\* Ring::new; it is closed during the whole life of the handles, whose
\* mapping stays, and no drop closes it again.
C12_FdClosedByNew ==
    ringres = "Ok" =>
        /\ shmfd = "closed" /\ closes = 1
        /\ (pAlive \/ cAlive) => rsv = "mapped"

\* ring() succeeded and both handles were dropped since.
C12_Witness ==
    ringres = "Ok" /\ ~pAlive /\ ~cAlive /\ shmfd = "closed" /\ closes = 1

\* C13: when a system call of the construction fails, ring() returns that
\* error, the shm descriptor, if opened, is closed once, and the reservation,
\* if mapped, is unmapped once, through the outer Mapping only.
C13_FailureReleasesOnce ==
    ringres = "Err" =>
        /\ ringerr \in Range(Syscalls)
        /\ shmfd \in {"none", "closed"}
        /\ closes = (IF shmfd = "closed" THEN 1 ELSE 0)
        /\ rsv \in {"none", "unmapped"}
        /\ munmaps = (IF rsv = "unmapped" THEN <<"map">> ELSE <<>>)

FiredFor(fd) == SelectSeq(fired, LAMBDA f : f.fd = fd)

\* fd is registered and the kernel found it ready for an event of its mask.
MaskReady(fd) ==
    /\ regmask[fd].on
    /\ \/ "READABLE" \in regmask[fd].evset /\ "in" \in kready[fd]
       \/ "WRITABLE" \in regmask[fd].evset /\ "out" \in kready[fd]

\* The Readable / Writable events a poll can fire for fd, whatever is ready.
CanFire(fd) ==
    UNION {UNION {f.evset \cap {"READABLE", "WRITABLE"} :
                     f \in {g \in Range(Selector_poll(ready)) : g.fd = fd}} :
           ready \in [Fds -> ReadyKinds]}

\* C15: in every backend, a poll yields no Fired for a descriptor that was
\* deregistered and not registered again since, whatever mask it had, and
\* still yields every other registered descriptor that is ready.
C15_DeregisteredSilent ==
    iterating =>
        /\ \A fd \in dereg : FiredFor(fd) = <<>>
        /\ dereg # {} => \A fd \in Fds : MaskReady(fd) => FiredFor(fd) # <<>>

\* C16: a poll yields exactly one Fired for each registered descriptor that
\* is ready for an event of its mask, at every poll while it is ready, and
\* none for a descriptor with nothing to report; so none at all when no
\* registered descriptor is ready.
C16_LevelTriggered ==
    iterating =>
        \A fd \in Fds :
            /\ MaskReady(fd) => Len(FiredFor(fd)) = 1
            /\ (\/ ~regmask[fd].on
                \/ ~MaskReady(fd) /\ kready[fd] \cap {"err", "hup"} = {})
                  => FiredFor(fd) = <<>>

\* C17: after reregister(fd, mask) on a registered descriptor, fd is watched
\* for exactly the events of mask: those and no others can fire.
C17_ReregisterReplaces ==
    [][\A fd \in Fds, evts \in Masks :
          (Reregister(fd, evts) /\ sret' = "Ok") => CanFire(fd)' = evts]_vars

\* C18: in every backend reregister(fd, empty) returns what deregister(fd)
\* would and leaves the selector as deregister(fd) would, so that a later
\* register(fd, m) succeeds.
C18_EmptyIsDeregister ==
    [][\A fd \in Fds :
          Reregister(fd, {}) =>
              /\ sret' = Selector_deregister(fd).ret
              /\ interest' = Selector_deregister(fd).interest
              /\ knotes' = Selector_deregister(fd).knotes
              /\ maxfd' = Selector_deregister(fd).sel.maxfd
              /\ rfds' = Selector_deregister(fd).sel.rfds
              /\ wfds' = Selector_deregister(fd).sel.wfds
              /\ \A m \in Masks : (Selector_register(fd, m).ret)' = "Ok"]_vars

\* C19: every Fired of a poll is for a descriptor registered at that poll,
\* and its Readable / Writable bits are in the mask it is registered with.
C19_FiredRegistered ==
    iterating =>
        \A i \in 1..Len(fired) :
            /\ regmask[fired[i].fd].on
            /\ fired[i].evset \cap {"READABLE", "WRITABLE"}
                   \subseteq regmask[fired[i].fd].evset

\* C20: a Fired for a registered descriptor on which the kernel found an
\* error or a hang-up has the Error or the Hup bit, whatever the mask.
C20_ErrorHupReported ==
    iterating =>
        \A i \in 1..Len(fired) :
            (regmask[fired[i].fd].on /\ kready[fired[i].fd] \cap {"err", "hup"} # {})
                => fired[i].evset \cap {"ERROR", "HUP"} # {}

\* C21: poll and poll_timeout never return EINTR to the caller: a wait that a
\* signal interrupted is entered again, in every backend.
C21_EintrRetried == sret # "EINTR"

\* The backend 4.2.5 states for a build.
StatedBackend(feature, os) ==
    IF feature THEN "select"
    ELSE IF os = "linux" THEN "epoll"
    ELSE IF os \in {"freebsd", "openbsd", "netbsd", "bitrig", "dragonfly", "macos"}
         THEN "kqueue"
    ELSE "select"

\* C22: every combination of the feature "select" and the target OS compiles
\* exactly one backend in: select with the feature; without it epoll on
\* Linux, kqueue on the BSDs and macOS, select anywhere else.
C22_OneBackend ==
    [][\A feature \in BOOLEAN, os \in TargetOs, wins \in BOOLEAN :
          Build(feature, os, wins) =>
              /\ Cardinality(selector_mods(feature, os)) = 1
              /\ backend' = StatedBackend(feature, os)]_vars

\* C23: poll_timeout(dt) with a negative dt, of less than a millisecond too,
\* has the kernel wait indefinitely as poll() does: the kernel neither
\* returns at once nor is handed a timeout it rejects.
C23_NegativeIsIndefinite ==
    (kwait # "none" /\ ptimeout.some /\ ptimeout.ns < 0) => kwait = "indefinite"

\* C24: a blocking read or write whose transfer returned 0 while the state is
\* not Disconnected sets the state to Blocked in block() and waits there: it
\* does not go back to the transfer without having waited.
C24_BlockSetsBlocked ==
    [][/\ (ppc = "block" /\ ppc' # "block" /\ state # "Disconnected")
            => (state' = "Blocked" /\ ppc' # "retry")
       /\ (cpc = "block" /\ cpc' # "block" /\ state # "Disconnected")
            => (state' = "Blocked" /\ cpc' # "retry")]_vars

\* C25: a transfer that moved no byte leaves the state as it is and does not
\* notify the condition variable; only one that moved a byte or more does.
C25_ZeroTransferSilent ==
    [][/\ (ppc = "unblock" /\ ppc' # "unblock" /\ p_nwrit = 0)
            => (state' = state /\ notified' = "none")
       /\ (cpc = "unblock" /\ cpc' # "unblock" /\ c_nread = 0)
            => (state' = state /\ notified' = "none")]_vars

\* C26: each iteration of a blocking wrapper's loop calls the non-blocking
\* transfer, an operation other than the wrapper itself: the step a thread
\* takes from the wrapper's call is into the transfer, on the same frame.
C26_LoopCallsTransfer ==
    [][/\ (ppc = "wrapper" /\ <<ppc, pframes>>' # <<ppc, pframes>>)
            => (ppc' = "copy" /\ pframes' = pframes)
       /\ (cpc = "wrapper" /\ <<cpc, cframes>>' # <<cpc, cframes>>)
            => (cpc' = "copy" /\ cframes' = cframes)]_vars

\* The physical bytes of the ring the producer's copy stores to and the
\* consumer's copy loads from while the copy is under way, and the ring
\* positions they stand for.
CopyWrites == IF ppc = "copy" THEN {Phys(p_offset + i) : i \in 0..(p_nwrit - 1)} ELSE {}
CopyReads == IF cpc = "copy" THEN {Phys(c_offset + i) : i \in 0..(c_nread - 1)} ELSE {}
WritePositions == IF ppc = "copy" THEN {p_head + i : i \in 0..(p_nwrit - 1)} ELSE {}
ReadPositions == IF cpc = "copy" THEN {c_tail + i : i \in 0..(c_nread - 1)} ELSE {}

\* C27: with the copies byte by byte and concurrent, no physical byte of the
\* ring is stored to by the producer's copy while the consumer's copy loads
\* it: the producer writes positions of [head, tail + cap) only, the consumer
\* reads positions of [tail, head) only, and head (tail) is advanced only
\* once the producer's (consumer's) copy is complete.
C27_NoByteSharedByCopies ==
    /\ [](/\ CopyWrites \cap CopyReads = {}
          /\ \A q \in WritePositions : head <= q /\ q < tail + cap
          /\ \A q \in ReadPositions : tail <= q /\ q < head)
    /\ [][/\ head' # head => (ppc = "store" /\ p_copied = p_nwrit)
          /\ tail' # tail => (cpc = "store" /\ Len(cdata) = c_nread)]_vars

\* A step of an operation of the producer / of the consumer: a call of
\* write or try_write (read or try_read), of capacity(), or the drop.
ProducerOp == prodVars' # prodVars \/ pAlive' # pAlive \/ pcapacity' # pcapacity
ConsumerOp == consVars' # consVars \/ cAlive' # cAlive \/ ccapacity' # ccapacity

\* C28: every operation of the producer leaves tail unchanged, every
\* operation of the consumer leaves head unchanged, and no operation changes
\* cap or mask.
C28_SingleWriterFrame ==
    [][/\ ProducerOp => tail' = tail
       /\ ConsumerOp => head' = head
       /\ cap' = cap /\ mask' = mask]_vars

\* Both threads are inside a transfer that moves bytes, on a ring whose
\* counters have moved before, and each has called capacity().
C28_Witness ==
    /\ ppc = "store" /\ p_nwrit > 0 /\ cpc = "store" /\ c_nread > 0
    /\ head > 0 /\ tail > 0
    /\ pcapacity # None /\ ccapacity # None

\* C29: every copy of a transfer stays inside the mapping of 2 * cap bytes:
\* its offset o = counter & mask and its length n have 0 <= o < cap and
\* o + n <= 2 * cap.
C29_CopyInsideMapping ==
    /\ ppc \in {"copy", "store"} =>
           /\ 0 <= p_offset /\ p_offset < cap
           /\ 0 <= p_nwrit /\ p_offset + p_nwrit <= 2 * cap
    /\ cpc \in {"copy", "store"} =>
           /\ 0 <= c_offset /\ c_offset < cap
           /\ 0 <= c_nread /\ c_offset + c_nread <= 2 * cap

\* The producer's copy is under way and reaches past the first cap bytes of
\* the mapping.
C29_Witness ==
    /\ ppc = "copy" /\ p_copied > 0 /\ p_offset + p_nwrit > cap
    /\ p_offset > 0 /\ tail > 0

\* The peer was dropped after the caller's transfer moved no byte and its
\* unblock() section ended, and before the caller took the mutex in block():
\* the disconnect is the latest critical section.
ConsumerRaced == cpc = "block" /\ ~pAlive /\ notified = "notify_all"
ProducerRaced == ppc = "block" /\ ~cAlive /\ notified = "notify_all"

\* C30: a drop sets the state to Disconnected and notifies all waiters in
\* one critical section, and block() tests the state under the mutex before
\* any wait; so a blocking caller whose peer is dropped between its
\* zero-byte transfer and its taking the mutex is not held in block(): it
\* can leave it, and it returns.
C30_DropBeforeBlock ==
    /\ [][(pAlive' # pAlive \/ cAlive' # cAlive)
              => (state' = "Disconnected" /\ notified' = "notify_all")]_vars
    /\ [](ConsumerRaced => ENABLED ConsumerBlock)
    /\ [](ProducerRaced => ENABLED ProducerBlock)
    /\ (ConsumerRaced ~> (cpc = "idle" /\ cret = None))
    /\ (ProducerRaced ~> (ppc = "idle" /\ pret = None))

\* The consumer's blocking read found the ring empty with the producer
\* alive, and the producer was dropped before the read took the mutex.
C30_Witness == ConsumerRaced /\ ~cpeerGone /\ head = tail

\* A blocking write found the ring full and the consumer has read since; a
\* blocking read found the ring empty and the producer has written since.
ProducerAwaited ==
    /\ pblocking /\ ppc \in {"block", "retry"} /\ Len(pbuf) > 0
    /\ head - tail < cap /\ cAlive
ConsumerAwaited ==
    /\ cblocking /\ cpc \in {"block", "retry"} /\ clen > 0
    /\ head > tail /\ pAlive

C32_DropKeepsData ==
    [][/\ (pAlive' # pAlive \/ cAlive' # cAlive)
            => (head' = head /\ tail' = tail /\ mem' = mem)
       /\ (cpc = "unblock" /\ cpc' = "idle" /\ ~cblocking /\ cpeerGone)
            => /\ cret' = Usize(Min(clen, head - c_tail))
               /\ cdata = SubSeq(written, c_tail + 1, c_tail + cret'.n)]_vars

\* C33: Shm::new goes round its loop again only after a name collision and
\* makes 4096 attempts at most; any other error of shm_open ends it at
\* once; the 4096th collision in a row ends it with the error of exhausted
\* names; and whenever it returns an error no descriptor is left open.
C33_ShmRetries ==
    /\ attempts <= ATTEMPTS
    /\ shmres = "retry" => (shmerr = "AlreadyExists" /\ attempts < ATTEMPTS)
    /\ shmerr = "Other" => shmres = "Err"
    /\ shmerr = "exceeded maximum number of retries"
          => (shmres = "Err" /\ attempts = ATTEMPTS
                /\ shmname = "none" /\ shmfd = "none")
    /\ shmres = "Err" => shmfd # "open"

\* Shm::new has returned the error of exhausted names.
C33_Witness ==
    /\ shmres = "Err" /\ shmerr = "exceeded maximum number of retries"
    /\ attempts = ATTEMPTS /\ shmfd = "none"

\* C34: on the select backend, after any sequence of register, reregister
\* and deregister, maxfd is the largest descriptor set in rfds or wfds (0
\* when both are empty), so that every descriptor still registered lies in
\* [0, maxfd] and is polled.
C34_MaxfdIsLargest ==
    backend = "select" =>
        /\ maxfd = (IF rfds \cup wfds = {} THEN 0
                    ELSE CHOOSE i \in rfds \cup wfds :
                             \A j \in rfds \cup wfds : j <= i)
        /\ \A fd \in Fds : regmask[fd].on /\ fd \in rfds \cup wfds => fd <= maxfd

\* C35: on the select backend deregister(fd) clears the bit of fd in the
\* read set and in the write set, and leaves the bits of every other
\* descriptor as they were.
C35_DeregisterClearsBoth ==
    [][\A fd \in Fds :
          (backend = "select" /\ regmask[fd].on /\ ~regmask'[fd].on)
             => /\ rfds' = rfds \ {fd}
                /\ wfds' = wfds \ {fd}]_vars

\* C36: on the kqueue backend register(fd, mask) submits one change per
\* filter (EVFILT_READ, EVFILT_WRITE), each with EV_ADD and exactly one of
\* EV_ENABLE and EV_DISABLE: EV_ENABLE if and only if the filter's event is
\* in the mask.  No change carries both.
C36_OneOfEnableDisable ==
    [][\A fd \in Fds :
          (backend = "kqueue" /\ regmask'[fd].on /\ regmask'[fd] # regmask[fd])
             => LET evts == regmask'[fd].evset
                    ch == kqueue_register_changes(fd, evts)
                    wanted(ke) == \/ ke.filter = "EVFILT_READ" /\ "READABLE" \in evts
                                  \/ ke.filter = "EVFILT_WRITE" /\ "WRITABLE" \in evts
                IN  /\ {ch[i].filter : i \in 1..Len(ch)} = {"EVFILT_READ", "EVFILT_WRITE"}
                    /\ Len(ch) = 2
                    /\ \A i \in 1..Len(ch) :
                          /\ "EV_ADD" \in ch[i].flags
                          /\ "EV_ENABLE" \in ch[i].flags <=> wanted(ch[i])
                          /\ "EV_DISABLE" \in ch[i].flags <=> ~wanted(ch[i])]_vars

\* C37: on the epoll backend the portable mask made of a set of kernel flags
\* has Readable iff EPOLLIN is set, Writable iff EPOLLOUT, Error iff
\* EPOLLERR, and Hup iff EPOLLHUP or EPOLLRDHUP; and a portable mask turned
\* into epoll flags and back is the same mask.
C37_EpollFlagMapping ==
    /\ "READABLE" \in ep_evset <=> "EPOLLIN" \in ep_events
    /\ "WRITABLE" \in ep_evset <=> "EPOLLOUT" \in ep_events
    /\ "ERROR" \in ep_evset <=> "EPOLLERR" \in ep_events
    /\ "HUP" \in ep_evset <=> ("EPOLLHUP" \in ep_events \/ "EPOLLRDHUP" \in ep_events)
    /\ ep_events = ep_flag => ep_evset = ep_evts

\* A mask with Hup has been turned into flags and these back into a mask.
C37_Witness ==
    /\ "HUP" \in ep_evts /\ "READABLE" \in ep_evts
    /\ ep_events = ep_flag /\ "EPOLLRDHUP" \in ep_events
    /\ ep_evset = ep_evts

\* C38: on the select backend poll_timeout(dt) hands the kernel a timeval
\* that stands for dt: tv_sec is the whole seconds of dt, tv_usec the rest
\* of dt in microseconds, and 0 <= tv_usec < 1000000 for every dt.
C38_TimevalIsDuration ==
    (backend = "select" /\ ptimeout.some /\ kwait # "none") =>
        LET tv == select_timeval(ptimeout.ns)
        IN  /\ tv.tv_sec = ptimeout.ns \div 1000000000
            /\ tv.tv_usec = (ptimeout.ns % 1000000000) \div 1000
            /\ 0 <= tv.tv_usec /\ tv.tv_usec < 1000000

\* C39: read_nb and write_nb never return an Interrupted or a WouldBlock
\* error: after Interrupted the loop makes the inner call again, WouldBlock
\* and a transfer of 0 bytes end it with Ok, any other error is returned as
\* it is, and Ok(n) carries the sum n of the bytes the inner calls moved,
\* with n <= buf.len().
C39_HelperResults ==
    [][nb_pc = "loop" =>
          /\ nb_ret'.tag = "Err" =>
                /\ nb_ret'.kind \notin {"Interrupted", "WouldBlock"}
                /\ nb_ret'.kind = nb_last'
          /\ nb_last' = "Interrupted" =>
                (nb_pc' = "loop" /\ nb_n' = nb_n /\ nb_ret' = IoNone)
          /\ (nb_last' = "WouldBlock" \/ (nb_last' = "Ok" /\ nb_n' = nb_n))
                => (nb_pc' = "idle" /\ nb_ret' = IoOk(nb_n))
          /\ nb_last' = "Other" => (nb_pc' = "idle" /\ nb_ret' = IoErr("Other"))
          /\ nb_ret'.tag = "Ok" =>
                (nb_ret'.n = nb_moved' /\ nb_ret'.n <= nb_len')]_vars

\* A helper has returned Ok(n), n > 0, after an Interrupted inner call that
\* it made again and a WouldBlock that ended its loop.
C39_Witness ==
    /\ nb_op = "write_nb" /\ rf_pc = "idle"
    /\ nb_pc = "idle" /\ nb_ret.tag = "Ok" /\ nb_ret.n > 0 /\ nb_ret.n < nb_len
    /\ nb_last = "WouldBlock"

\* C40: when read_from returns on a Vec<u8> or a VecDeque<u8>, with Ok or
\* with an error, the buffer holds what it held before followed by exactly
\* the bytes the reader handed over, in order, and none of the zeros of
\* resize; with Ok the count returned is the number of bytes appended.
C40_ReadFromAppends ==
    (rf_pc = "idle" /\ rf_ret.tag # "none") =>
        /\ rf_buf = rf_prev \o rf_got
        /\ rf_ret.tag = "Ok" => rf_ret.n = Len(rf_buf) - Len(rf_prev)

====
